---- MODULE Spec2Model ----
(***************************************************************************)
(* Model of the analytics core of KrapB2Bcrypto:                           *)
(*   - EventEngine (src/utils/eventEngine.ts): the persistent event state  *)
(*     machine driven by process()/setWindow();                            *)
(*   - calculateProfile (src/utils/analytics.ts): volume profile, POC and  *)
(*     value area;                                                         *)
(*   - enrichCandlesWithContext (src/utils/analytics.ts): session VWAP     *)
(*     and cumulative delta, with timestamps in hours;                     *)
(*   - calculateAuctionContext, determineCVDState and                      *)
(*     calculateSessionLevels (src/utils/analytics.ts), as the chart       *)
(*     calls them on its candles;                                          *)
(*   - analyzeDOM (src/utils/domAnalytics.ts): delta, age and flags of     *)
(*     the book's levels;                                                  *)
(*   - SmartGroupingEngine (src/utils/smartGrouping.ts) and the            *)
(*     OrderBookDelta component that feeds it;                             *)
(*   - the stability rule of ProfileChart and the engine ownership of      *)
(*     OrderFlowDashboard (src/components).                                *)
(* Times are milliseconds, as Date.now() returns them.  Prices and         *)
(* quantities are integers.  Ratios the code computes in floating point    *)
(* are compared by exact cross-multiplication; strength, the only value    *)
(* that is repeatedly multiplied, is kept in hundredths and rounded down,  *)
(* with the life ratio taken over whole seconds.                           *)
(***************************************************************************)
EXTENDS Integers, Sequences, FiniteSets, TLC

VARIABLES
    events,         \* EventEngine.events: the Map, as a sequence in insertion order
    failCooldowns,  \* EventEngine.failCooldowns: bucket -> deadline
    windowMinutes,  \* EventEngine.windowMinutes
    now,            \* the value Date.now() returned last
    callTimes,      \* the value of Date.now() in each process() call so far
    returned,       \* the array the last process() call returned
    tick,           \* the arguments and the observations of the last process() call
    failLog,        \* every FAIL produced so far: [id, bucket, failTime, born]
    candles,        \* the candle array handed to calculateProfile
    tickSize,       \* the tickSize handed to calculateProfile
    profile,        \* the ProfileMetrics calculateProfile returned last
    series,         \* the candle array handed to enrichCandlesWithContext
    enriched,       \* the candle array enrichCandlesWithContext returned last
    domSide,        \* the side of the book analyzeDOM is followed on
    prevState,      \* prevBidsState / prevAsksState: price -> EnrichedLevel
    domOut,         \* the array analyzeDOM returned last
    domIn,          \* the arguments of the last analyzeDOM call
    domSeen,        \* the prices of every snapshot analysed so far
    recentPrices,   \* SmartGroupingEngine.recentPrices
    volatility,     \* SmartGroupingEngine.volatility, as its square <<num, den>>
    deltaMap,       \* OrderBookDelta's deltaMap, as a sequence in insertion order
    zoneNow,        \* the value Date.now() returned last in OrderBookDelta
    symbol,         \* the symbol prop of OrderBookDelta
    priceSymbols,   \* the symbol each entry of recentPrices was pushed under
    adaptive,       \* the last getAdaptiveGroupSize call: [base, size]
    zoneTick,       \* the last aggregateZones call: arguments and results
    zoneSteps,      \* effects and ticks OrderBookDelta has run
    stableContext,  \* ProfileChart's stableContext ref
    lastStateChange,\* ProfileChart's lastStateChange ref
    chartNow,       \* the value Date.now() returned in the last render
    chartTick,      \* the last render: the instant context and the refs before it
    persistenceWindow, \* OrderFlowDashboard's persistenceWindow state
    lastReset,      \* the last replacement of the dashboard's EventEngine
    feed,           \* the candle array the chart's analytics are computed from
    analysis,       \* what the analytics returned for feed
    twin,           \* a second EventEngine, given the same calls at the same times
    tradesBuffer,   \* OrderFlowDashboard's tradesBuffer ref, newest trade first
    profileCalls    \* number of calculateProfile calls made in SpecPure

vars == <<events, failCooldowns, windowMinutes, now, callTimes, returned, tick,
          failLog, candles, tickSize, profile, series, enriched,
          domSide, prevState, domOut, domIn, domSeen,
          recentPrices, volatility, deltaMap, zoneNow, symbol, priceSymbols,
          adaptive, zoneTick, zoneSteps,
          stableContext, lastStateChange, chartNow, chartTick,
          persistenceWindow, lastReset, feed, analysis, twin, tradesBuffer,
          profileCalls>>

engineVars == <<events, failCooldowns, windowMinutes, now, callTimes, returned,
                tick, failLog>>
profileVars == <<candles, tickSize, profile>>
enrichVars == <<series, enriched>>
domVars == <<domSide, prevState, domOut, domIn, domSeen>>
zoneVars == <<recentPrices, volatility, deltaMap, zoneNow, symbol, priceSymbols,
              adaptive, zoneTick, zoneSteps>>

\* what an action of one component leaves alone
chartVars == <<stableContext, lastStateChange, chartNow, chartTick>>
dashVars == <<persistenceWindow, lastReset>>
feedVars == <<feed, analysis>>
twinVars == <<twin>>
loopVars == <<tradesBuffer>>
pureVars == <<profileCalls>>
besidesEngine == <<profileVars, enrichVars, domVars, zoneVars, chartVars, dashVars,
    feedVars, twinVars, loopVars, pureVars>>
besidesProfile == <<engineVars, enrichVars, domVars, zoneVars, chartVars, dashVars,
    feedVars, twinVars, loopVars, pureVars>>
besidesEnrich == <<engineVars, profileVars, domVars, zoneVars, chartVars, dashVars,
    feedVars, twinVars, loopVars, pureVars>>
besidesDom == <<engineVars, profileVars, enrichVars, zoneVars, chartVars, dashVars,
    feedVars, twinVars, loopVars, pureVars>>
besidesZones == <<engineVars, profileVars, enrichVars, domVars, chartVars, dashVars,
    feedVars, twinVars, loopVars, pureVars>>
besidesChart == <<engineVars, profileVars, enrichVars, domVars, zoneVars, dashVars,
    feedVars, twinVars, loopVars, pureVars>>
besidesDashboard == <<profileVars, enrichVars, domVars, chartVars, feedVars, twinVars, loopVars, pureVars>>
besidesFeed == <<engineVars, profileVars, enrichVars, domVars, zoneVars, chartVars,
                 dashVars, twinVars, loopVars, pureVars>>
besidesBoth == <<profileVars, enrichVars, domVars, zoneVars, chartVars, dashVars,
                 feedVars, loopVars, pureVars>>
besidesLoop == <<profileVars, enrichVars, zoneVars, chartVars, dashVars, feedVars,
                 twinVars, pureVars>>
besidesPure == <<engineVars, enrichVars, domVars, zoneVars, chartVars, dashVars,
                 feedVars, twinVars, loopVars>>

----------------------------------------------------------------------------
(* Bounds of the model *)

MaxCalls == 3          \* process() calls in one behaviour of Spec
MaxWindowCalls == 3    \* process() calls in one behaviour of SpecWindow
MaxStackCalls == 13    \* process() calls in one behaviour of SpecStack
MaxCandles == 3        \* candles handed to calculateProfile
MaxPrice == 2          \* highest price a candle touches
MaxSeries == 3         \* candles handed to enrichCandlesWithContext
MaxTicks == 3          \* analysis ticks in one behaviour of SpecDom
MaxZoneSteps == 3      \* effects and ticks in one behaviour of SpecZones
MaxUpdates == 5        \* updateVolatility calls in one behaviour of SpecVolatility
MaxRenders == 3        \* renders in one behaviour of SpecChart
MaxDashCalls == 4      \* process() calls in one behaviour of SpecDashboard
MaxSwitchSteps == 2    \* effects and ticks in one behaviour of SpecSwitch
MaxBars == 10          \* candles in one behaviour of SpecAnalysis
MaxDetectCalls == 2    \* process() calls in one behaviour of SpecDetect
MaxPurgeCalls == 4     \* process() calls in one behaviour of SpecPurge
MaxLoopTicks == 3      \* analytics ticks in one behaviour of SpecLoop
MaxTrades == 2         \* trades received in one behaviour of SpecLoop
MaxScoreTicks == 2     \* aggregateZones calls in one behaviour of SpecScore
MaxProfileCalls == 4   \* calculateProfile calls in one behaviour of SpecPure
MaxStableBars == 7     \* candles in one behaviour of SpecStable
MaxStableRenders == 8  \* renders in one behaviour of SpecStable
MaxFeedCalls == 4      \* process() calls with a book in one behaviour of SpecExpire

----------------------------------------------------------------------------
(* Program constants of eventEngine.ts *)

FailFade == 120000          \* a FAIL is kept this long after failTime
ActiveMs == 500             \* justUpdated
HoldingAge == 120000
HoldingConfirmations == 10
MatureAge == 60000
CooldownMs == 300000
BucketSize == 10
MinConfidence == 70
StackNotional == 150000
StackAge == 5
PushGap == 10000
DefaultWindow == 30
SessionWindow == 480
LongAge == 300000
StrengthFloor == 10
StrengthCap == 100

Centi == 10 * 10            \* strength is kept in hundredths
NoTime == 0 - 1             \* failTime undefined
NoRatio == <<>>             \* remDropRatio undefined

\* PersistenceWindow = 15 | 30 | 60 | 'SESSION'
Timed(minutes) == [session |-> FALSE, minutes |-> minutes]
Session == [session |-> TRUE, minutes |-> 0]
Windows == {Timed(15), Timed(30), Timed(60), Session}

Min(a, b) == IF a < b THEN a ELSE b
Max(a, b) == IF a > b THEN a ELSE b
Abs(a) == IF a < 0 THEN 0 - a ELSE a

----------------------------------------------------------------------------
(* EventEngine.processLevels *)

AbsorptionThreshold == 15   \* lvl.absorption > 1.5, absorption kept in tenths

NoDetection == [type |-> "NONE", strength |-> 0]

\* mutant: the spoof flag is looked at before the absorption
DetectSpoofFirst(lvl) ==
    IF lvl.isIceberg THEN [type |-> "ICE", strength |-> 80]
    ELSE IF lvl.isSpoof THEN [type |-> "PULL", strength |-> 90]
    ELSE IF lvl.absorption > AbsorptionThreshold
        THEN [type |-> "ABSORPTION", strength |-> 80]
    ELSE IF lvl.qty * lvl.price > StackNotional /\ lvl.age > StackAge
        THEN [type |-> "STACK", strength |-> 60]
    ELSE NoDetection

\* The detected type of a level and its detection strength.
Detect(lvl) ==
    IF lvl.isIceberg THEN [type |-> "ICE", strength |-> 80]
    ELSE IF lvl.absorption > AbsorptionThreshold
        THEN [type |-> "ABSORPTION", strength |-> 80]
    ELSE IF lvl.isSpoof THEN [type |-> "PULL", strength |-> 90]
    ELSE IF lvl.qty * lvl.price > StackNotional /\ lvl.age > StackAge
        THEN [type |-> "STACK", strength |-> 60]
    ELSE NoDetection

EventId(side, price) == <<side, price>>

\* this.events.get(id): the index of the event in the map, 0 when absent.
IndexOf(evs, id) ==
    IF \E i \in 1..Len(evs) : evs[i].id = id
        THEN CHOOSE i \in 1..Len(evs) : evs[i].id = id
        ELSE 0

Has(evs, id) == IndexOf(evs, id) # 0
Get(evs, id) == evs[IndexOf(evs, id)]
Ids(evs) == {evs[i].id : i \in 1..Len(evs)}

\* "Failed Push detection": the event is older than a minute and was last
\* confirmed more than ten seconds before t.
FailedPush(e, t) ==
    (t - e.firstDetected) > MatureAge /\ (t - e.lastConfirmed) > PushGap

\* mutant: the promotion changes the type and keeps the state
ReinforceKeepingState(existing, lvl, det, t) ==
    LET e1 == [existing EXCEPT
                  !.lastConfirmed = t,
                  !.confirmations = @ + 1,
                  !.volume = lvl.qty,
                  !.peakVolume = Max(@, lvl.qty),
                  !.strength = Min(StrengthCap * Centi, @ + 2 * Centi)]
    IN  IF det.type = "ICE" /\ e1.type # "ICE" THEN [e1 EXCEPT !.type = "ICE"]
        ELSE e1

\* "Update Existing": the code writes lastConfirmed first and tests the failed
\* push on the record it has just written.
Reinforce(existing, lvl, det, t) ==
    LET e1 == [existing EXCEPT
                  !.revisits = IF FailedPush(existing, t) THEN @ + 1 ELSE @,
                  !.lastConfirmed = t,
                  !.confirmations = @ + 1,
                  !.volume = lvl.qty,
                  !.peakVolume = Max(@, lvl.qty),
                  !.strength = Min(StrengthCap * Centi, @ + 2 * Centi)]
        e2 == IF det.type = "ICE" /\ e1.type # "ICE"
                THEN [e1 EXCEPT !.type = "ICE", !.state = "STACK"]
                ELSE e1
    IN  IF FailedPush(e2, t)
            THEN [e2 EXCEPT !.failedPushes = @ + 1]
            ELSE e2

\* "Create New".
NewEvent(lvl, side, det, t) ==
    [ id |-> EventId(side, lvl.price),
      type |-> det.type,
      price |-> lvl.price,
      side |-> side,
      state |-> IF det.type \in {"ABSORPTION", "ICE"} THEN "ABSORPTION" ELSE "STACK",
      firstDetected |-> t,
      lastConfirmed |-> t,
      failTime |-> NoTime,
      volume |-> lvl.qty,
      peakVolume |-> lvl.qty,
      strength |-> det.strength * Centi,
      confirmations |-> 1,
      failedPushes |-> 0,
      isActive |-> TRUE,
      isRetest |-> FALSE,
      isFailed |-> FALSE,
      failConfidence |-> 0,
      remDropRatio |-> NoRatio,
      revisits |-> 0 ]   \* history: re-detections after a gap, see FailedPush

\* mutant: the guard of the bid side applied to both sides
IsBehindBidOnly(side, lastPrice, price) == lastPrice < price

\* "don't create levels behind price"
IsBehind(side, lastPrice, price) ==
    IF side = "bid" THEN lastPrice < price ELSE lastPrice > price

\* mutant: a detection on a failed zone starts the zone afresh
ProcessLevelRecreating(evs, lvl, side, t, lastPrice) ==
    LET det == Detect(lvl)
        i == IndexOf(evs, EventId(side, lvl.price))
    IN  IF det.type = "NONE" THEN evs
        ELSE IF i # 0
            THEN IF evs[i].state \in {"FAIL", "BROKEN"}
                    THEN [evs EXCEPT ![i] = NewEvent(lvl, side, det, t)]
                 ELSE [evs EXCEPT ![i] = Reinforce(evs[i], lvl, det, t)]
        ELSE IF IsBehind(side, lastPrice, lvl.price) THEN evs
        ELSE Append(evs, NewEvent(lvl, side, det, t))

\* mutant: a failed zone is updated like any other
ProcessLevelUnguarded(evs, lvl, side, t, lastPrice) ==
    LET det == Detect(lvl)
        i == IndexOf(evs, EventId(side, lvl.price))
    IN  IF det.type = "NONE" THEN evs
        ELSE IF i # 0 THEN [evs EXCEPT ![i] = Reinforce(evs[i], lvl, det, t)]
        ELSE IF IsBehind(side, lastPrice, lvl.price) THEN evs
        ELSE Append(evs, NewEvent(lvl, side, det, t))

\* The body of levels.forEach for one level.
ProcessLevel(evs, lvl, side, t, lastPrice) ==
    LET det == Detect(lvl)
        id == EventId(side, lvl.price)
        i == IndexOf(evs, id)
    IN  IF det.type = "NONE" THEN evs
        ELSE IF i # 0
            THEN IF evs[i].state \in {"FAIL", "BROKEN"} THEN evs
                 ELSE [evs EXCEPT ![i] = Reinforce(evs[i], lvl, det, t)]
        ELSE IF IsBehind(side, lastPrice, lvl.price) THEN evs
        ELSE Append(evs, NewEvent(lvl, side, det, t))

RECURSIVE processLevels(_, _, _, _, _)
processLevels(evs, levels, side, t, lastPrice) ==
    IF levels = <<>> THEN evs
    ELSE processLevels(ProcessLevel(evs, Head(levels), side, t, lastPrice),
                       Tail(levels), side, t, lastPrice)

----------------------------------------------------------------------------
(* EventEngine.calculateFailConfidence *)

\* remDrop = 1 - volume / peakVolume, kept as the fraction <<num, den>>.
RemDrop(e) == <<e.peakVolume - e.volume, e.peakVolume>>
RatioAbove(r, num, den) == r[1] * den > num * r[2]     \* r > num/den
RatioBelow(r, num, den) == r[1] * den < num * r[2]     \* r < num/den

\* mutant: the state of the event earns nothing
FailConfidenceWithoutHistory(e, remDrop, age) ==
    LET type == IF e.type \in {"ABSORPTION", "ICE"} THEN 15 ELSE 0
        longevity == IF age > LongAge THEN 15
                     ELSE IF age < HoldingAge THEN 0 - 10 ELSE 0
        pull == IF RatioAbove(remDrop, 5, 10) THEN 25
                ELSE IF RatioBelow(remDrop, 1, 10) THEN 0 - 20 ELSE 0
        pushes == IF e.failedPushes > 2 THEN 20
                  ELSE IF e.failedPushes = 0 THEN 0 - 15 ELSE 0
    IN  Min(100, Max(0, 50 + type + longevity + pull + pushes))

calculateFailConfidence(e, remDrop, age) ==
    LET history == (IF e.state = "HOLDING" THEN 20 ELSE 0)
                 + (IF e.type \in {"ABSORPTION", "ICE"} THEN 15 ELSE 0)
        longevity == IF age > LongAge THEN 15
                     ELSE IF age < HoldingAge THEN 0 - 10 ELSE 0
        pull == IF RatioAbove(remDrop, 5, 10) THEN 25
                ELSE IF RatioBelow(remDrop, 1, 10) THEN 0 - 20 ELSE 0
        pushes == IF e.failedPushes > 2 THEN 20
                  ELSE IF e.failedPushes = 0 THEN 0 - 15 ELSE 0
        score == 50 + history + longevity + pull + pushes
    IN  Min(100, Max(0, score))

----------------------------------------------------------------------------
(* EventEngine.process: the state machine pass over one event *)

Bucket(price) == (price \div BucketSize) * BucketSize

\* this.failCooldowns.get(bucket) || 0
CooldownOf(cd, bucket) == IF bucket \in DOMAIN cd THEN cd[bucket] ELSE 0

SetCooldown(cd, bucket, deadline) ==
    [b \in DOMAIN cd \cup {bucket} |-> IF b = bucket THEN deadline ELSE cd[b]]

\* tolerance = lastPrice * 0.0003, compared without rounding
IsBreached(e, lastPrice) ==
    \/ e.side = "bid" /\ 10000 * lastPrice < 10000 * e.price - 3 * lastPrice
    \/ e.side = "ask" /\ 10000 * lastPrice > 10000 * e.price + 3 * lastPrice

\* mutants of the gate: the cooldown ignored, any confidence accepted
CooldownIgnored(t, cooldown) == TRUE
AnyConfidence(conf) == conf >= 0

IsSignificant(state) == state \in {"STACK", "ABSORPTION", "HOLDING", "WEAKENING"}
IsMature(age) == age > MatureAge
NotInCooldown(t, cooldown) == t > cooldown
IsConfident(conf) == conf >= MinConfidence

\* mutant: a FAIL fades after the window, like the others
ExpiredFailByWindow(e, t, windowMs) ==
    LET failTime == IF e.failTime = NoTime THEN 0 ELSE e.failTime
    IN  \/ t - e.firstDetected > windowMs /\ e.state # "FAIL"
        \/ e.state = "FAIL" /\ t - failTime > windowMs

\* mutant: one expiry rule for every state, measured from firstDetected
ExpiredByAge(e, t, windowMs) ==
    t - e.firstDetected > (IF e.state = "FAIL" THEN FailFade ELSE windowMs)

\* "Expiration (Ghost removal)" and "Separate cleanup for old fails"
Expired(e, t, windowMs) ==
    LET age == t - e.firstDetected
        expiry == IF e.state = "FAIL" THEN FailFade ELSE windowMs
        failTime == IF e.failTime = NoTime THEN 0 ELSE e.failTime
    IN  \/ age > expiry /\ e.state # "FAIL"
        \/ e.state = "FAIL" /\ t - failTime > expiry

\* mutant: ten confirmations are enough
ToHoldingAtTen(e, age) ==
    IF e.state \in {"STACK", "ABSORPTION"} /\ age > HoldingAge
       /\ e.confirmations >= HoldingConfirmations
        THEN [e EXCEPT !.state = "HOLDING"] ELSE e

ToHolding(e, age) ==
    IF e.state \in {"STACK", "ABSORPTION"} /\ age > HoldingAge
       /\ e.confirmations > HoldingConfirmations
        THEN [e EXCEPT !.state = "HOLDING"] ELSE e

\* mutant: a WEAKENING event whose volume has recovered is HOLDING again
WeakeningAndBack(e) ==
    IF e.isActive /\ e.state = "HOLDING" /\ 10 * e.volume < 3 * e.peakVolume
        THEN [e EXCEPT !.state = "WEAKENING"]
    ELSE IF e.state = "WEAKENING" /\ 10 * e.volume >= 3 * e.peakVolume
        THEN [e EXCEPT !.state = "HOLDING"] ELSE e

ToWeakening(e) ==
    IF e.isActive /\ e.state = "HOLDING" /\ 10 * e.volume < 3 * e.peakVolume
        THEN [e EXCEPT !.state = "WEAKENING"] ELSE e

\* mutant: the quiet break raises the FAIL state
MarkBrokenAsFail(e) == [e EXCEPT !.state = "FAIL", !.isFailed = TRUE]

MarkBroken(e) == [e EXCEPT !.state = "BROKEN", !.isFailed = TRUE]

\* mutant: the FAIL state is raised without the time of the failure
MarkFailUntimed(e, t, conf, remDrop) ==
    [e EXCEPT !.state = "FAIL", !.type = "FAIL", !.isFailed = TRUE,
              !.failConfidence = conf, !.remDropRatio = remDrop]

MarkFail(e, t, conf, remDrop) ==
    [e EXCEPT !.state = "FAIL", !.type = "FAIL", !.isFailed = TRUE,
              !.failTime = t, !.failConfidence = conf, !.remDropRatio = remDrop]

\* "Transition: FAIL (The Big One)".  Yields the event, the cooldown map and
\* what happened: the set holds one record when the event was breached.
Breach(e, cd, t, lastPrice, age) ==
    IF IsBreached(e, lastPrice) /\ ~e.isFailed /\ e.state # "BROKEN"
    THEN LET bucket == Bucket(e.price)
             cooldown == CooldownOf(cd, bucket)
             remDrop == RemDrop(e)
             conf == calculateFailConfidence(e, remDrop, age)
             gated == IsSignificant(e.state) /\ IsMature(age)
                      /\ NotInCooldown(t, cooldown)
             fails == gated /\ IsConfident(conf)
             seen == [id |-> e.id, bucket |-> bucket, age |-> age,
                      state |-> e.state, cooldown |-> cooldown,
                      conf |-> IF gated THEN conf ELSE 0 - 1,
                      revisits |-> e.revisits]
         IN  IF fails
             THEN [ev |-> MarkFail(e, t, conf, remDrop),
                   cd |-> SetCooldown(cd, bucket, t + CooldownMs),
                   seen |-> {seen}]
             ELSE [ev |-> MarkBroken(e), cd |-> cd, seen |-> {seen}]
    ELSE [ev |-> e, cd |-> cd, seen |-> {}]

\* mutant: a retest at any age
RetestAtAnyAge(e, justUpdated, lastPrice, age) ==
    IF ~justUpdated /\ ~e.isFailed
       /\ lastPrice > 0 /\ 10000 * Abs(lastPrice - e.price) < 5 * lastPrice
        THEN [e EXCEPT !.isRetest = TRUE] ELSE e

\* "Retest Logic"
Retest(e, justUpdated, lastPrice, age) ==
    IF ~justUpdated /\ ~e.isFailed /\ age > MatureAge
       /\ lastPrice > 0 /\ 10000 * Abs(lastPrice - e.price) < 5 * lastPrice
        THEN [e EXCEPT !.isRetest = TRUE] ELSE e

\* mutant: a FAIL decays like any other event
DecayAlsoFail(e, age, windowMs) ==
    [e EXCEPT !.strength =
        Max(StrengthFloor * Centi,
            (@ * ((windowMs - age) \div 1000)) \div (windowMs \div 1000))]

\* "Decay": strength * (1 - age / windowMs), floored at 10
Decay(e, age, windowMs) ==
    IF e.state # "FAIL"
        THEN [e EXCEPT !.strength =
                 Max(StrengthFloor * Centi,
                     (@ * ((windowMs - age) \div 1000)) \div (windowMs \div 1000))]
        ELSE e

\* One iteration of the loop over this.events for an event that is kept.
EventStep(e, cd, t, lastPrice, windowMs) ==
    LET age == t - e.firstDetected
        justUpdated == (t - e.lastConfirmed) < ActiveMs
        e1 == [e EXCEPT !.isActive = justUpdated]
        e2 == ToWeakening(ToHolding(e1, age))
        br == Breach(e2, cd, t, lastPrice, age)
        e3 == Retest(br.ev, justUpdated, lastPrice, age)
    IN  [ev |-> Decay(e3, age, windowMs), cd |-> br.cd, seen |-> br.seen]

\* The loop over this.events, in insertion order; acc carries the events kept
\* so far, the cooldown map and the breaches seen.
RECURSIVE StateMachine(_, _, _, _, _)
StateMachine(evs, acc, t, lastPrice, windowMs) ==
    IF evs = <<>> THEN acc
    ELSE LET e == Head(evs)
         IN  IF Expired(e, t, windowMs)
             THEN StateMachine(Tail(evs), acc, t, lastPrice, windowMs)
             ELSE LET st == EventStep(e, acc.cd, t, lastPrice, windowMs)
                  IN  StateMachine(Tail(evs),
                          [evs |-> Append(acc.evs, st.ev), cd |-> st.cd,
                           seen |-> acc.seen \cup st.seen],
                          t, lastPrice, windowMs)

\* mutant: the cleanup empties the map
PurgeEverything(cd, t) == <<>>

\* "Cleanup Cooldowns", when Math.random() > 0.95
PurgeCooldowns(cd, t) ==
    LET keep == {b \in DOMAIN cd : ~(t > cd[b])}
    IN  [b \in keep |-> cd[b]]

\* mutant: the filter tests the deprecated flag instead of the state
IsNotFailed(e) == ~e.isFailed

\* "Return only renderable events (Hide BROKEN)"
IsRenderable(e) == e.state # "BROKEN"
Renderable(evs) == SelectSeq(evs, IsRenderable)

WindowMs(minutes) == minutes * 60 * 1000

----------------------------------------------------------------------------
(* The environment: what the callers hand to the engine *)

\* Date.now() advances by one of these between two calls: a fast tick, and
\* pauses longer than a minute and as long as the 15 minute window.
Steps == {400, 70000, 900000}

BidPrice == 50000 + 1
AskPrice == 50000 + 5
\* below the bid's tolerance, between the two levels, above the ask's tolerance
LastPrices == {49900, 50003, 50100}

Quiet(price)   == [price |-> price, qty |-> 20, isIceberg |-> FALSE,
                   absorption |-> 0, isSpoof |-> FALSE, age |-> 0]
Absorb(price)  == [Quiet(price) EXCEPT !.absorption = 20]
Iceberg(price) == [Quiet(price) EXCEPT !.isIceberg = TRUE, !.qty = 4,
                                       !.absorption = 20]
Stack(price)   == [Quiet(price) EXCEPT !.age = 6]
Thin(price)    == [Quiet(price) EXCEPT !.age = 6, !.qty = 4]
Spoof(price)   == [Quiet(price) EXCEPT !.isSpoof = TRUE, !.age = 6]

BidBooks == {<<>>, <<Absorb(BidPrice)>>, <<Iceberg(BidPrice)>>}
AskBooks == {<<>>, <<Stack(AskPrice)>>, <<Iceberg(AskPrice)>>}

\* Math.random() > 0.95 falls either way; the purge changes the map only when
\* an entry has expired.
Purges(cd, t) == IF \E b \in DOMAIN cd : t > cd[b] THEN BOOLEAN ELSE {FALSE}

\* tick records the last process() call: its arguments, the map, the
\* cooldowns and the window before it, the map after the detection phase and
\* the breaches seen
calls == Len(callTimes)      \* number of process() calls made

NoTick == [lastPrice |-> 0, bids |-> <<>>, asks |-> <<>>, before |-> <<>>,
           cooldowns |-> <<>>, detected |-> <<>>, seen |-> {}, windowMinutes |-> 0]

EngineInit ==
    /\ events = <<>>
    /\ failCooldowns = <<>>
    /\ windowMinutes = DefaultWindow
    /\ now = 1
    /\ callTimes = <<>>
    /\ returned = <<>>
    /\ tick = NoTick
    /\ failLog = {}

\* EventEngine.setWindow
setWindow(window) ==
    /\ windowMinutes' = IF window.session THEN SessionWindow ELSE window.minutes
    /\ UNCHANGED <<events, failCooldowns, now, callTimes, returned, tick, failLog>>

FailRecord(e) == [id |-> e.id, bucket |-> Bucket(e.price),
                  failTime |-> e.failTime, born |-> e.firstDetected]

\* EventEngine.process, called when Date.now() has advanced by dt
process(dt, bids, asks, lastPrice) ==
    LET t == now + dt
        windowMs == WindowMs(windowMinutes)
        withBids == processLevels(events, bids, "bid", t, lastPrice)
    IN  \E detected \in {processLevels(withBids, asks, "ask", t, lastPrice)} :
        \E sm \in {StateMachine(detected,
                        [evs |-> <<>>, cd |-> failCooldowns, seen |-> {}],
                        t, lastPrice, windowMs)} :
            /\ now' = t
            /\ events' = sm.evs
            /\ \E purge \in Purges(sm.cd, t) :
                  failCooldowns' = IF purge THEN PurgeCooldowns(sm.cd, t) ELSE sm.cd
            /\ returned' = Renderable(sm.evs)
            /\ callTimes' = Append(callTimes, t)
            /\ tick' = [lastPrice |-> lastPrice, bids |-> bids, asks |-> asks,
                        before |-> events, cooldowns |-> failCooldowns,
                        detected |-> detected, seen |-> sm.seen,
                        windowMinutes |-> windowMinutes]
            /\ failLog' = failLog \cup
                  {FailRecord(sm.evs[i]) : i \in {j \in 1..Len(sm.evs) :
                        /\ sm.evs[j].state = "FAIL"
                        /\ sm.evs[j].id \in {b.id : b \in sm.seen}}}
            /\ UNCHANGED windowMinutes

\* Array.from(this.events.values()).filter(...) is a new array of the map's
\* own objects, which the next call writes in place: what the holder of a
\* record of the previous result reads in it after the last call.  A record
\* the call deleted keeps what processLevels wrote before the deletion.
ObjectAfter(held) ==
    IF Has(events, held.id) THEN Get(events, held.id)
    ELSE Get(tick.detected, held.id)

Process ==
    /\ calls < MaxCalls
    /\ \E dt \in Steps, lastPrice \in LastPrices,
          bids \in BidBooks, asks \in AskBooks :
            process(dt, bids, asks, lastPrice)
    /\ UNCHANGED besidesEngine

SetWindow ==
    /\ \E window \in Windows : setWindow(window)
    /\ UNCHANGED besidesEngine

----------------------------------------------------------------------------
(* calculateProfile *)

RECURSIVE Factorial(_)
Factorial(n) == IF n <= 1 THEN 1 ELSE n * Factorial(n - 1)

\* Volumes are counted in this fraction of a unit, so that volume / numTicks
\* is exact for every number of ticks a candle can span.
VolUnit == Factorial(MaxPrice + 1)

EmptyProfile ==
    [error |-> "none", levels |-> <<>>, poc |-> 0, vah |-> 0, val |-> 0,
     totalVolume |-> 0, sessionHigh |-> 0, sessionLow |-> 0, steps |-> <<>>]

\* Math.floor(a / b) for a >= 0 and b # 0
FloorDiv(a, b) == IF b > 0 THEN a \div b ELSE 0 - ((a + (0 - b) - 1) \div (0 - b))

LowTick(candle, size) == FloorDiv(candle.low, size)
HighTick(candle, size) == FloorDiv(candle.high, size)
VolumePerTick(candle, size) ==
    (candle.volume * VolUnit) \div (HighTick(candle, size) - LowTick(candle, size) + 1)

\* volumeMap after candles.forEach: tick index -> accumulated volume
RECURSIVE VolumeAt(_, _, _)
VolumeAt(cs, size, t) ==
    IF cs = <<>> THEN 0
    ELSE VolumeAt(Tail(cs), size, t)
         + (IF LowTick(Head(cs), size) <= t /\ t <= HighTick(Head(cs), size)
              THEN VolumePerTick(Head(cs), size) ELSE 0)

TicksOf(cs, size) ==
    {t \in (0 - MaxPrice)..(MaxPrice + 1) :
        \E i \in 1..Len(cs) : LowTick(cs[i], size) <= t /\ t <= HighTick(cs[i], size)}

\* the entries of volumeMap as levels sorted by price
RECURSIVE SortedLevels(_, _, _)
SortedLevels(cs, size, ticks) ==
    IF ticks = {} THEN <<>>
    ELSE LET t == CHOOSE x \in ticks : \A y \in ticks : x * size <= y * size
         IN  <<[price |-> t * size, volume |-> VolumeAt(cs, size, t)]>>
             \o SortedLevels(cs, size, ticks \ {t})

RECURSIVE SumVolume(_)
SumVolume(cs) ==
    IF cs = <<>> THEN 0 ELSE Head(cs).volume * VolUnit + SumVolume(Tail(cs))

\* levels.forEach with its strictly-greater comparison, from poc = 0, maxVol = -1
RECURSIVE FindPoc(_, _, _)
FindPoc(levels, poc, maxVol) ==
    IF levels = <<>> THEN [poc |-> poc, maxVol |-> maxVol]
    ELSE IF Head(levels).volume > maxVol
        THEN FindPoc(Tail(levels), Head(levels).price, Head(levels).volume)
        ELSE FindPoc(Tail(levels), poc, maxVol)

\* levels.findIndex(l => l.price === poc), counted from 1
PocIndex(levels, poc) == CHOOSE i \in 1..Len(levels) :
    levels[i].price = poc /\ \A j \in 1..(i - 1) : levels[j].price # poc

\* currentVolume < totalVolume * 0.7
BelowTarget(currentVolume, totalVolume) == 10 * currentVolume < 7 * totalVolume

\* if (nextUpper > nextLower) upperIndex++ else lowerIndex--
ExtendsUpper(nextUpper, nextLower) == nextUpper > nextLower

\* One pass of the loop as the history keeps it: the bounds it started from,
\* whether each neighbour exists, their volumes and the side it extended.
StepRecord(n, upper, lower, nextUpper, nextLower) ==
    [upper |-> upper, lower |-> lower,
     hasUpper |-> upper < n, hasLower |-> lower > 1,
     nextUpper |-> nextUpper, nextLower |-> nextLower,
     moved |-> IF ExtendsUpper(nextUpper, nextLower) THEN "upper" ELSE "lower"]

\* The while loop of the value area.  lower = 0 is the index -1 of the code:
\* reading levels[-1].volume throws a TypeError.
RECURSIVE Expand(_, _, _, _, _, _)
Expand(levels, upper, lower, currentVolume, totalVolume, steps) ==
    LET n == Len(levels)
    IN  IF ~(BelowTarget(currentVolume, totalVolume) /\ (upper < n \/ lower > 1))
        THEN [error |-> "none", upper |-> upper, lower |-> lower, steps |-> steps]
        ELSE LET nextUpper == IF upper < n THEN levels[upper + 1].volume ELSE 0
                 nextLower == IF lower > 1 THEN levels[lower - 1].volume ELSE 0
                 done == Append(steps, StepRecord(n, upper, lower, nextUpper, nextLower))
             IN  IF ExtendsUpper(nextUpper, nextLower)
                 THEN IF upper + 1 = n /\ lower = 1
                      THEN [error |-> "none", upper |-> upper + 1, lower |-> lower,
                            steps |-> done]
                      ELSE Expand(levels, upper + 1, lower,
                                  currentVolume + levels[upper + 1].volume,
                                  totalVolume, done)
                 ELSE IF lower - 1 < 1
                      THEN [error |-> "TypeError", upper |-> upper, lower |-> lower - 1,
                            steps |-> done]
                      ELSE IF upper = n /\ lower - 1 = 1
                      THEN [error |-> "none", upper |-> upper, lower |-> lower - 1,
                            steps |-> done]
                      ELSE Expand(levels, upper, lower - 1,
                                  currentVolume + levels[lower - 1].volume,
                                  totalVolume, done)

\* levels[i]?.price || poc: a price of 0 is falsy
PriceOr(levels, i, poc) == IF levels[i].price = 0 THEN poc ELSE levels[i].price

SeqMax(cs) == CHOOSE x \in {cs[i].high : i \in 1..Len(cs)} :
                 \A i \in 1..Len(cs) : cs[i].high <= x
SeqMin(cs) == CHOOSE x \in {cs[i].low : i \in 1..Len(cs)} :
                 \A i \in 1..Len(cs) : cs[i].low >= x

\* tickSize 0: low / 0 is Infinity for a positive low and the inner loop
\* from Infinity to Infinity never ends; it is NaN for low = 0 and the loop
\* body never runs.
LoopsForever(cs, size) == size = 0 /\ \E i \in 1..Len(cs) : cs[i].low > 0

\* No tick received a volume: pocIndex is -1, the while loop is not entered
\* and levels[-1]?.price || poc is 0.
NoLevels(cs) ==
    [EmptyProfile EXCEPT !.totalVolume = SumVolume(cs),
                         !.sessionHigh = SeqMax(cs), !.sessionLow = SeqMin(cs)]

calculateProfile(cs, size) ==
    IF Len(cs) = 0 THEN EmptyProfile
    ELSE IF LoopsForever(cs, size) THEN [EmptyProfile EXCEPT !.error = "never returns"]
    ELSE IF size = 0 THEN NoLevels(cs)
    ELSE IF TicksOf(cs, size) = {} THEN NoLevels(cs)
    ELSE LET levels == SortedLevels(cs, size, TicksOf(cs, size))
             totalVolume == SumVolume(cs)
             found == FindPoc(levels, 0, 0 - 1)
             pocIndex == PocIndex(levels, found.poc)
             area == Expand(levels, pocIndex, pocIndex, found.maxVol, totalVolume, <<>>)
         IN  IF area.error # "none"
             THEN [EmptyProfile EXCEPT !.error = area.error, !.steps = area.steps]
             ELSE [error |-> "none",
                   levels |-> levels,
                   poc |-> found.poc,
                   vah |-> PriceOr(levels, area.upper, found.poc),
                   val |-> PriceOr(levels, area.lower, found.poc),
                   totalVolume |-> totalVolume,
                   sessionHigh |-> SeqMax(cs),
                   sessionLow |-> SeqMin(cs),
                   steps |-> area.steps]

\* The callers' inputs: candles with low <= high and a volume that may be 0.
TickSizes == {1, 2}
Volumes == {0, 1, 2}
Candles == {c \in [low : 0..MaxPrice, high : 0..MaxPrice, volume : Volumes] :
               c.low <= c.high}

----------------------------------------------------------------------------
(* enrichCandlesWithContext *)

\* Candle timestamps are counted in hours since the epoch; every candle the
\* model feeds opens on a whole hour.  new Date(ts) converts by the
\* proleptic Gregorian calendar in UTC.
IsLeap(y) == (y % 4 = 0 /\ y % 100 # 0) \/ y % 400 = 0

DaysInMonth(y, m) ==
    IF m = 2 THEN (IF IsLeap(y) THEN 29 ELSE 28)
    ELSE IF m \in {4, 6, 9, 11} THEN 30 ELSE 31

RECURSIVE CivilFrom(_, _, _)
CivilFrom(days, y, m) ==
    IF days >= DaysInMonth(y, m)
    THEN CivilFrom(days - DaysInMonth(y, m),
                   IF m = 12 THEN y + 1 ELSE y, IF m = 12 THEN 1 ELSE m + 1)
    ELSE [year |-> y, month |-> m, day |-> days + 1]

\* new Date(timestamp) as year, month and day of the month in UTC
UTCDateOf(timestamp) == CivilFrom(timestamp \div 24, 1970, 1)

\* new Date(timestamp).getUTCDate(): the day of the month, 1..31
getUTCDate(timestamp) == UTCDateOf(timestamp).day

NoCandleTime == 0 - 0      \* let lastTime = 0

ZeroSums == [cumDelta |-> 0, cumVol |-> 0, cumPV |-> 0, lastTime |-> NoCandleTime]

\* aggressiveBuy - aggressiveSell
DeltaOf(c) == c.takerBuyVolume - (c.volume - c.takerBuyVolume)

\* if (lastTime !== 0 && date !== prevDate)
IsNewDay(c, lastTime) ==
    lastTime # NoCandleTime /\ getUTCDate(c.timestamp) # getUTCDate(lastTime)

\* The callback of candles.map.  vwap is kept as the ratio <<cumPV, cumVol>>,
\* and as <<close, 1>> when cumVol is 0.  The band and divergence fields
\* (vwapStd, divergence) are not carried: nothing read here depends on them.
RECURSIVE EnrichFrom(_, _, _)
EnrichFrom(cs, sums, out) ==
    IF cs = <<>> THEN out
    ELSE LET c == Head(cs)
             base == IF IsNewDay(c, sums.lastTime)
                       THEN [ZeroSums EXCEPT !.lastTime = sums.lastTime]
                       ELSE sums
             cumDelta == base.cumDelta + DeltaOf(c)
             cumVol == base.cumVol + c.volume
             cumPV == base.cumPV + c.close * c.volume
             vwap == IF cumVol > 0 THEN <<cumPV, cumVol>> ELSE <<c.close, 1>>
         IN  EnrichFrom(Tail(cs),
                        [cumDelta |-> cumDelta, cumVol |-> cumVol, cumPV |-> cumPV,
                         lastTime |-> c.timestamp],
                        Append(out, [timestamp |-> c.timestamp, close |-> c.close,
                                     volume |-> c.volume,
                                     takerBuyVolume |-> c.takerBuyVolume,
                                     delta |-> DeltaOf(c), cvd |-> cumDelta,
                                     vwap |-> vwap]))

enrichCandlesWithContext(cs) == EnrichFrom(cs, ZeroSums, <<>>)

\* Candle open times: 1 Jan 1970 12:00, 1 Jan 18:00, 2 Jan 12:00, 1 Feb 12:00,
\* 2 Feb 12:00 (UTC), in hours.
OpenTimes == {12, 18, 36, 756, 780}
Closes == {1, 3}
Flows == {<<0, 0>>, <<2, 0>>, <<2, 2>>}     \* <<volume, takerBuyVolume>>
FlowCandles ==
    {[timestamp |-> ts, close |-> cl, volume |-> f[1], takerBuyVolume |-> f[2]] :
        ts \in OpenTimes, cl \in Closes, f \in Flows}

EnrichIdle == series = <<>> /\ enriched = <<>>

----------------------------------------------------------------------------
(* analyzeDOM *)

SPOOF_PULL_THRESHOLD == 5000

\* the condition under which a trade is added to tradeMap
HitsSide(t, side) ==
    (side = "bid" /\ t.isBuyerMaker) \/ (side = "ask" /\ ~t.isBuyerMaker)

\* tradeMap.get(price) || 0
RECURSIVE TradeMapGet(_, _, _)
TradeMapGet(trades, side, price) ==
    IF trades = <<>> THEN 0
    ELSE (IF HitsSide(Head(trades), side) /\ Head(trades).price = price
            THEN Head(trades).qty ELSE 0)
         + TradeMapGet(Tail(trades), side, price)

HasPrev(prevLevels, price) == price \in DOMAIN prevLevels

\* mutant: a new level starts at age 1
AgeFromOne(prevLevels, price) ==
    IF HasPrev(prevLevels, price) THEN prevLevels[price].age + 1 ELSE 1

\* const age = prev ? prev.age + 1 : 0
AgeOf(prevLevels, price) ==
    IF HasPrev(prevLevels, price) THEN prevLevels[price].age + 1 ELSE 0

\* delta = rawDiff + executedVol, or level.qty for a new level
DeltaQty(prevLevels, level, executedVol) ==
    IF HasPrev(prevLevels, level.price)
    THEN (level.qty - prevLevels[level.price].qty) + executedVol
    ELSE level.qty

\* mutant: a pull counts whether or not the level traded
IsSpoofDespiteTrades(prevLevels, level, executedVol) ==
    /\ HasPrev(prevLevels, level.price)
    /\ (prevLevels[level.price].qty - level.qty) * level.price > SPOOF_PULL_THRESHOLD

\* valueRemoved > SPOOF_PULL_THRESHOLD && executedVol === 0
IsSpoof(prevLevels, level, executedVol) ==
    /\ HasPrev(prevLevels, level.price)
    /\ (prevLevels[level.price].qty - level.qty) * level.price > SPOOF_PULL_THRESHOLD
    /\ executedVol = 0

\* executedVol > 0 && delta >= 0
IsIceberg(delta, executedVol) == executedVol > 0 /\ delta >= 0

\* executedVol / level.qty as the ratio <<executedVol, qty>>, else 0
AbsorptionScore(level, executedVol) ==
    IF executedVol > 0 /\ level.qty > 0 THEN <<executedVol, level.qty>> ELSE <<0, 1>>

\* the callback of newLevels.map for one level; cumulative is the running sum
EnrichLevel(level, prevLevels, trades, side, cumulative) ==
    LET executedVol == TradeMapGet(trades, side, level.price)
        delta == DeltaQty(prevLevels, level, executedVol)
        carried == IF HasPrev(prevLevels, level.price)
                     THEN prevLevels[level.price].icebergVol ELSE 0
    IN  [price |-> level.price, qty |-> level.qty, type |-> side,
         cumulativeQty |-> cumulative + level.qty,
         deltaQty |-> delta,
         tradeVol |-> executedVol,
         absorption |-> AbsorptionScore(level, executedVol),
         isIceberg |-> IsIceberg(delta, executedVol),
         icebergVol |-> IF IsIceberg(delta, executedVol)
                          THEN carried + executedVol ELSE carried,
         isSpoof |-> IsSpoof(prevLevels, level, executedVol),
         age |-> AgeOf(prevLevels, level.price)]

RECURSIVE AnalyzeFrom(_, _, _, _, _, _)
AnalyzeFrom(newLevels, prevLevels, trades, side, cumulative, out) ==
    IF newLevels = <<>> THEN out
    ELSE AnalyzeFrom(Tail(newLevels), prevLevels, trades, side,
                     cumulative + Head(newLevels).qty,
                     Append(out, EnrichLevel(Head(newLevels), prevLevels, trades,
                                             side, cumulative)))

analyzeDOM(newLevels, prevLevels, recentTrades, side) ==
    AnalyzeFrom(newLevels, prevLevels, recentTrades, side, 0, <<>>)

\* new Map(enriched.map(l => [l.price, l])): a later entry of a price wins
LevelMap(enrichedLevels) ==
    [p \in {enrichedLevels[i].price : i \in 1..Len(enrichedLevels)} |->
        enrichedLevels[CHOOSE i \in 1..Len(enrichedLevels) :
            /\ enrichedLevels[i].price = p
            /\ \A j \in (i + 1)..Len(enrichedLevels) : enrichedLevels[j].price # p]]

\* The book the stream delivers: up to two price levels, best first, and the
\* recent trades at the first of them.
NearPrice == 1000 + 1
FarPrice == 1000 + 0
Quantities == {1, 10}
Level(price, qty) == [price |-> price, qty |-> qty]
Snapshots ==
    {<<>>}
    \cup {<<Level(p, q)>> : p \in {NearPrice, FarPrice}, q \in Quantities}
    \cup {<<Level(NearPrice, q1), Level(FarPrice, q2)>> :
            q1 \in Quantities, q2 \in Quantities}
Trade(price, qty, isBuyerMaker) ==
    [price |-> price, qty |-> qty, isBuyerMaker |-> isBuyerMaker]
TradeFlows ==
    {<<>>, <<Trade(NearPrice, 3, TRUE)>>, <<Trade(NearPrice, 3, FALSE)>>,
     <<Trade(NearPrice, 3, TRUE), Trade(NearPrice, 2, TRUE)>>}

NoDomCall == [levels |-> <<>>, trades |-> <<>>, prev |-> <<>>]

DomIdle ==
    /\ domSide = "bid"
    /\ prevState = <<>>
    /\ domOut = <<>>
    /\ domIn = NoDomCall
    /\ domSeen = <<>>

----------------------------------------------------------------------------
(* SmartGroupingEngine *)

RECURSIVE SumOf(_)
SumOf(seq) == IF seq = <<>> THEN 0 ELSE Head(seq) + SumOf(Tail(seq))

RECURSIVE SumOfSquares(_)
SumOfSquares(seq) ==
    IF seq = <<>> THEN 0 ELSE Head(seq) * Head(seq) + SumOfSquares(Tail(seq))

\* The volatility is the square root of the variance of recentPrices.  It is
\* kept as the variance <<num, den>> = <<n * sum(b^2) - sum(b)^2, n^2>>, and
\* compared with k through its square.
Calm == <<0, 1>>
VarianceOf(prices) ==
    <<Len(prices) * SumOfSquares(prices) - SumOf(prices) * SumOf(prices),
      Len(prices) * Len(prices)>>
VolIsZero(vol) == vol[1] = 0
VolAbove(vol, k) == vol[1] > k * k * vol[2]

\* recentPrices after push and shift
PushPrice(prices, currentPrice) ==
    LET pushed == Append(prices, currentPrice)
    IN  IF Len(pushed) > 20 THEN Tail(pushed) ELSE pushed

\* this.volatility after updateVolatility
VolatilityOf(prices) == IF Len(prices) < 5 THEN Calm ELSE VarianceOf(prices)

\* mutant: the widened bucket replaces the base instead of bounding it
AdaptiveWithoutMax(vol, baseGroup) ==
    IF VolIsZero(vol) THEN baseGroup
    ELSE IF VolAbove(vol, 50) THEN 100
    ELSE IF VolAbove(vol, 20) THEN 50
    ELSE IF VolAbove(vol, 5) THEN 10
    ELSE baseGroup

getAdaptiveGroupSize(vol, baseGroup) ==
    IF VolIsZero(vol) THEN baseGroup
    ELSE IF VolAbove(vol, 50) THEN Max(baseGroup, 100)
    ELSE IF VolAbove(vol, 20) THEN Max(baseGroup, 50)
    ELSE IF VolAbove(vol, 5) THEN Max(baseGroup, 10)
    ELSE baseGroup

\* mutant: the stale test is left out
IsStaleNever(raw, validStart) == FALSE

\* if (raw.lastUpdate < validStart) return
IsStale(raw, validStart) == raw.lastUpdate < validStart

BucketKey(price, groupSize) ==
    IF groupSize = 0 THEN price ELSE (price \div groupSize) * groupSize

NewZone(bucketKey, groupSize, vol) ==
    [id |-> <<"z", bucketKey>>,
     priceStart |-> bucketKey,
     priceEnd |-> IF groupSize = 0 THEN bucketKey ELSE bucketKey + groupSize,
     added |-> 0, removed |-> 0, executed |-> 0, net |-> 0, density |-> 0,
     avgLifetime |-> 0, lastUpdate |-> 0,
     noiseScore |-> 0, impactScore |-> 0, isSignificant |-> FALSE,
     volatility |-> vol]

ZoneIndex(zones, bucketKey) ==
    IF \E i \in 1..Len(zones) : zones[i].priceStart = bucketKey
    THEN CHOOSE i \in 1..Len(zones) : zones[i].priceStart = bucketKey
    ELSE 0

\* the callback of rawMap.forEach for an entry that is not stale
AddRaw(zones, raw, groupSize, t, vol) ==
    LET bucketKey == BucketKey(raw.price, groupSize)
        known == ZoneIndex(zones, bucketKey)
        withZone == IF known = 0
                      THEN Append(zones, NewZone(bucketKey, groupSize, vol))
                      ELSE zones
        i == IF known = 0 THEN Len(withZone) ELSE known
    IN  [withZone EXCEPT ![i] =
            [@ EXCEPT !.added = @ + raw.added,
                      !.removed = @ + raw.removed,
                      !.executed = @ + raw.executed,
                      !.net = @ + raw.net,
                      !.density = @ + 1,
                      !.lastUpdate = Max(@, raw.lastUpdate),
                      !.avgLifetime = Max(@, t - raw.firstSeen)]]

RECURSIVE BucketRaw(_, _, _, _, _, _)
BucketRaw(rawMap, zones, groupSize, t, validStart, vol) ==
    IF rawMap = <<>> THEN zones
    ELSE BucketRaw(Tail(rawMap),
                   IF IsStale(Head(rawMap), validStart) THEN zones
                   ELSE AddRaw(zones, Head(rawMap), groupSize, t, vol),
                   groupSize, t, validStart, vol)

ZoneVolume(z) == z.added + z.removed + z.executed

\* ascending insertion sort
RECURSIVE InsertAsc(_, _)
InsertAsc(sorted, x) ==
    IF sorted = <<>> THEN <<x>>
    ELSE IF x < Head(sorted) THEN <<x>> \o sorted
    ELSE <<Head(sorted)>> \o InsertAsc(Tail(sorted), x)

RECURSIVE SortAsc(_)
SortAsc(seq) == IF seq = <<>> THEN <<>> ELSE InsertAsc(SortAsc(Tail(seq)), Head(seq))

calculateDynamicVolumeThreshold(zones) ==
    IF Len(zones) = 0 THEN 1000
    ELSE LET volumes == SortAsc([i \in 1..Len(zones) |-> ZoneVolume(zones[i])])
             p80 == (Len(volumes) * 8) \div 10
         IN  IF volumes[p80 + 1] = 0 THEN 1000 ELSE volumes[p80 + 1]

\* mutant: the lifetime of the zone is not looked at
NoiseWithoutLifetime(zone, activeVolThreshold, groupSize, lastPrice) ==
    LET totalVol == ZoneVolume(zone)
        inZone == Abs(lastPrice - zone.priceStart) < groupSize
        volume == IF totalVol > activeVolThreshold * 2 THEN 0 - 30
                  ELSE IF 5 * totalVol < activeVolThreshold THEN 30 ELSE 0
        impact == IF totalVol > activeVolThreshold /\ inZone THEN 0 - 30
                  ELSE IF totalVol > activeVolThreshold /\ ~inZone /\ zone.executed > 0
                    THEN 0 - 20
                  ELSE IF totalVol < activeVolThreshold /\ ~inZone THEN 10
                  ELSE 0
    IN  50 + volume + impact

\* the noise score before the clamp
NoiseOf(zone, activeVolThreshold, groupSize, lastPrice) ==
    LET totalVol == ZoneVolume(zone)
        inZone == Abs(lastPrice - zone.priceStart) < groupSize
        volume == IF totalVol > activeVolThreshold * 2 THEN 0 - 30
                  ELSE IF 5 * totalVol < activeVolThreshold THEN 30 ELSE 0
        young == IF zone.avgLifetime < 5000 THEN 40 ELSE 0
        old == IF zone.avgLifetime > 60000 THEN 0 - 20 ELSE 0
        impact == IF totalVol > activeVolThreshold /\ inZone THEN 0 - 30
                  ELSE IF totalVol > activeVolThreshold /\ ~inZone /\ zone.executed > 0
                    THEN 0 - 20
                  ELSE IF totalVol < activeVolThreshold /\ ~inZone THEN 10
                  ELSE 0
    IN  50 + volume + young + old + impact

IsAbsorbing(zone, activeVolThreshold, groupSize, lastPrice) ==
    /\ ZoneVolume(zone) > activeVolThreshold
    /\ Abs(lastPrice - zone.priceStart) < groupSize

\* mutant: the strict setting lets most through
ThresholdReversed(noiseLevel, vol) ==
    IF noiseLevel = "LOW" THEN 40
    ELSE IF noiseLevel = "MEDIUM" THEN 60
    ELSE IF noiseLevel = "HIGH" THEN 80
    ELSE IF noiseLevel = "AUTO" THEN (IF VolAbove(vol, 20) THEN 30 ELSE 60)
    ELSE 50

\* the switch on noiseLevel
ThresholdOf(noiseLevel, vol) ==
    IF noiseLevel = "LOW" THEN 80
    ELSE IF noiseLevel = "MEDIUM" THEN 60
    ELSE IF noiseLevel = "HIGH" THEN 40
    ELSE IF noiseLevel = "AUTO" THEN (IF VolAbove(vol, 20) THEN 30 ELSE 60)
    ELSE 50

\* the body of zones.forEach up to the filter decision
Scored(zone, activeVolThreshold, groupSize, lastPrice, threshold) ==
    LET noiseScore == Max(0, Min(100, NoiseOf(zone, activeVolThreshold, groupSize, lastPrice)))
    IN  [zone EXCEPT
            !.noiseScore = noiseScore,
            !.impactScore = IF IsAbsorbing(zone, activeVolThreshold, groupSize, lastPrice)
                              THEN 100 ELSE @,
            !.isSignificant = noiseScore < threshold]

\* processed.sort((a, b) => b.priceStart - a.priceStart)
RECURSIVE InsertDesc(_, _)
InsertDesc(sorted, z) ==
    IF sorted = <<>> THEN <<z>>
    ELSE IF z.priceStart > Head(sorted).priceStart THEN <<z>> \o sorted
    ELSE <<Head(sorted)>> \o InsertDesc(Tail(sorted), z)

RECURSIVE SortDesc(_)
SortDesc(zs) ==
    IF zs = <<>> THEN <<>>
    ELSE InsertDesc(SortDesc(SubSeq(zs, 1, Len(zs) - 1)), zs[Len(zs)])

\* mutant: every bucket is pushed to processed
IsAnyZone(z) == TRUE

IsSignificantZone(z) == z.isSignificant

\* aggregateZones at time t.  zones is the array it returns; scored (every
\* bucket with its score) and activeVolThreshold are kept for the record.
aggregateZones(rawMap, groupSize, timeWindow, noiseLevel, lastPrice, t, vol) ==
    LET buckets == BucketRaw(rawMap, <<>>, groupSize, t, t - timeWindow, vol)
        activeVolThreshold == calculateDynamicVolumeThreshold(buckets)
        threshold == ThresholdOf(noiseLevel, vol)
        scored == [i \in 1..Len(buckets) |->
                      Scored(buckets[i], activeVolThreshold, groupSize, lastPrice,
                             threshold)]
    IN  [zones |-> SortDesc(SelectSeq(scored, IsSignificantZone)),
         scored |-> scored,
         activeVolThreshold |-> activeVolThreshold]

----------------------------------------------------------------------------
(* OrderBookDelta *)

RawIndex(map, price) ==
    IF \E i \in 1..Len(map) : map[i].price = price
    THEN CHOOSE i \in 1..Len(map) : map[i].price = price
    ELSE 0

\* updateLevel.  origin records the symbol the entry was created under.
updateLevel(map, level, timestamp, sym) ==
    LET i == RawIndex(map, level.price)
    IN  IF i = 0
        THEN Append(map, [price |-> level.price, added |-> level.qty, removed |-> 0,
                          executed |-> 0, net |-> level.qty, lastQty |-> level.qty,
                          firstSeen |-> timestamp, lastUpdate |-> timestamp,
                          origin |-> sym])
        ELSE LET entry == map[i]
                 rawDiff == level.qty - entry.lastQty
                 added == IF rawDiff > 0 THEN entry.added + rawDiff ELSE entry.added
                 removed == IF rawDiff < 0 THEN entry.removed + Abs(rawDiff)
                            ELSE entry.removed
             IN  [map EXCEPT ![i] = [entry EXCEPT !.added = added,
                                                  !.removed = removed,
                                                  !.lastQty = level.qty,
                                                  !.lastUpdate = timestamp,
                                                  !.net = added - removed]]

RECURSIVE UpdateLevels(_, _, _, _)
UpdateLevels(map, levels, timestamp, sym) ==
    IF levels = <<>> THEN map
    ELSE UpdateLevels(updateLevel(map, Head(levels), timestamp, sym),
                      Tail(levels), timestamp, sym)

\* recentTrades.forEach: attribute the executions of the last 500 ms
RECURSIVE Attribute(_, _, _)
Attribute(map, trades, timestamp) ==
    IF trades = <<>> THEN map
    ELSE LET t == Head(trades)
             i == RawIndex(map, t.price)
         IN  Attribute(IF t.time > timestamp - 500 /\ i # 0
                         THEN [map EXCEPT ![i] = [@ EXCEPT !.lastUpdate = timestamp,
                                                           !.executed = @ + t.qty]]
                         ELSE map,
                       Tail(trades), timestamp)

\* PLAYBOOKS
Playbook(baseGroup, timeWindow) == [baseGroup |-> baseGroup, timeWindow |-> timeWindow]
PLAYBOOKS == {Playbook(5, 60000 * 5), Playbook(25, 3600000), Playbook(100, 14400000)}

NoiseLevels == {"LOW", "MEDIUM", "HIGH", "AUTO"}
NoGroup == 0 - 1            \* customPriceGroup === null

\* the group size engineTick hands to aggregateZones
TargetGroup(config, customPriceGroup, isAutoGroup, vol) ==
    IF isAutoGroup /\ customPriceGroup = NoGroup
    THEN getAdaptiveGroupSize(vol, config.baseGroup)
    ELSE IF customPriceGroup = NoGroup \/ customPriceGroup = 0
      THEN config.baseGroup ELSE customPriceGroup

Symbols == {"BTCUSDT", "ETHUSDT"}

\* What the streams deliver to the component.
ZoneGaps == {1000, 30000, 400000}
TickGaps == {200, 30000}    \* one interval, or 150 of them
Books == {<<>>, <<Level(100, 5)>>, <<Level(100, 1)>>, <<Level(104, 5)>>,
          <<Level(100, 5), Level(112, 1)>>}
DeltaPrices == {100, 300}
Prints(t) == {<<>>, <<[price |-> 100, qty |-> 2, time |-> t - 100]>>,
              <<[price |-> 100, qty |-> 2, time |-> t - 1000]>>}
SteadyWindow == [i \in 1..19 |-> 100]

NoZoneTick ==
    [rawMap |-> <<>>, groupSize |-> 0, timeWindow |-> 0, lastPrice |-> 0,
     now |-> 0, vol |-> Calm, symbol |-> "", origins |-> <<>>,
     byLevel |-> [l \in NoiseLevels |-> <<>>],
     scored |-> <<>>, activeVolThreshold |-> 0]

NoAdaptive == [base |-> 0, size |-> 0, vol |-> Calm, prices |-> <<>>]

ZonesIdle ==
    /\ recentPrices = <<>>
    /\ volatility = Calm
    /\ deltaMap = <<>>
    /\ zoneNow = 1
    /\ symbol = "BTCUSDT"
    /\ priceSymbols = <<>>
    /\ adaptive = NoAdaptive
    /\ zoneTick = NoZoneTick
    /\ zoneSteps = 0

\* updateVolatility(currentPrice)
updateVolatility(currentPrice) ==
    /\ recentPrices' = PushPrice(recentPrices, currentPrice)
    /\ priceSymbols' = PushPrice(priceSymbols, symbol)
    /\ volatility' = VolatilityOf(recentPrices')

\* the accumulation effect, run when bids, asks or lastPrice change
Accumulate(dt, bids, asks, lastPrice, trades) ==
    LET timestamp == zoneNow + dt
    IN  /\ zoneNow' = timestamp
        /\ IF lastPrice > 0 THEN updateVolatility(lastPrice)
           ELSE UNCHANGED <<recentPrices, priceSymbols, volatility>>
        /\ deltaMap' = Attribute(UpdateLevels(UpdateLevels(deltaMap, bids, timestamp, symbol),
                                              asks, timestamp, symbol),
                                 trades, timestamp)
        /\ zoneSteps' = zoneSteps + 1
        /\ UNCHANGED <<symbol, adaptive, zoneTick>>

\* one aggregateZones call at time t, recorded with what it returns under
\* each noiseLevel
Aggregated(groupSize, timeWindow, lastPrice, t) ==
    LET at(l) == aggregateZones(deltaMap, groupSize, timeWindow, l, lastPrice, t,
                                volatility)
    IN  [rawMap |-> deltaMap, groupSize |-> groupSize, timeWindow |-> timeWindow,
         lastPrice |-> lastPrice, now |-> t, vol |-> volatility, symbol |-> symbol,
         origins |-> priceSymbols,
         byLevel |-> [l \in NoiseLevels |-> at(l).zones],
         scored |-> at("LOW").scored,
         activeVolThreshold |-> at("LOW").activeVolThreshold]

\* engineTick, every 200 ms
engineTick(dt, config, customPriceGroup, isAutoGroup, lastPrice) ==
    LET t == zoneNow + dt
        targetGroup == TargetGroup(config, customPriceGroup, isAutoGroup, volatility)
    IN  /\ zoneNow' = t
        /\ adaptive' = IF isAutoGroup /\ customPriceGroup = NoGroup
                         THEN [base |-> config.baseGroup, size |-> targetGroup,
                               vol |-> volatility, prices |-> recentPrices]
                         ELSE adaptive
        /\ zoneTick' = Aggregated(targetGroup, config.timeWindow, lastPrice, t)
        /\ zoneSteps' = zoneSteps + 1
        /\ UNCHANGED <<recentPrices, volatility, deltaMap, symbol, priceSymbols>>

\* handleReset
handleReset ==
    /\ deltaMap' = <<>>
    /\ recentPrices' = <<>>
    /\ priceSymbols' = <<>>
    /\ volatility' = Calm
    /\ UNCHANGED <<zoneNow, symbol, adaptive, zoneTick, zoneSteps>>

----------------------------------------------------------------------------
(* ProfileChart: the stability rule *)

Context(mode, confidence, bias) ==
    [mode |-> mode, confidence |-> confidence, bias |-> bias]

\* useRef({ mode: 'BALANCED', confidence: 0, scenario: '', bias: 'neutral' })
FirstContext == Context("BALANCED", 0, "neutral")

\* Contexts calculateAuctionContext returns: the base confidence 50 and each
\* mode's bonus, 80 at most.  The scenario text is a function of mode and bias and is
\* not carried.
InstantContexts ==
    {Context("BALANCED", 50, "neutral"), Context("BALANCED", 70, "neutral"),
     Context("INITIATIVE_BUY", 50, "bullish"), Context("INITIATIVE_BUY", 75, "bullish"),
     Context("FAILED_AUCTION_HIGH", 80, "bearish"),
     Context("ROTATIONAL", 50, "bullish")}

\* A context of the type's confidence range above 80, which the rule lets
\* through at once.
SureContexts == {Context("FAILED_AUCTION_HIGH", 100, "bearish")}

\* now - lastStateChange.current > 2000 || instantContext.confidence > 80
Accepts(t, lastChange, confidence) == t - lastChange > 2000 \/ confidence > 80

\* the stability rule: the refs after a render at time t
StabilityRule(stable, lastChange, instant, t) ==
    IF instant.mode # stable.mode
    THEN IF Accepts(t, lastChange, instant.confidence)
         THEN [stable |-> instant, lastChange |-> t]
         ELSE [stable |-> stable, lastChange |-> lastChange]
    ELSE [stable |-> instant, lastChange |-> lastChange]

\* Date.now() at the mount of the chart, and the time between two renders
MountTime == 1000 * 1000
RenderGaps == {16, 1000, 2000, 2001}

NoRender == [instant |-> FirstContext, stable |-> FirstContext, lastChange |-> 0,
             renders |-> 0]

ChartIdle ==
    /\ stableContext = FirstContext
    /\ lastStateChange = 0
    /\ chartNow = MountTime
    /\ chartTick = NoRender

\* one render of ProfileChart
render(dt, instant) ==
    LET t == chartNow + dt
        after == StabilityRule(stableContext, lastStateChange, instant, t)
    IN  /\ chartNow' = t
        /\ stableContext' = after.stable
        /\ lastStateChange' = after.lastChange
        /\ chartTick' = [instant |-> instant, stable |-> stableContext,
                         lastChange |-> lastStateChange,
                         renders |-> chartTick.renders + 1]

----------------------------------------------------------------------------
(* calculateAuctionContext, determineCVDState, calculateSessionLevels *)

MinContextCandles == 5
MinCvdCandles == 10
CvdFlat == 1000             \* Math.abs(slope) < 1000
CvdRange == 2000            \* range < 2000

Null == <<>>
Some(v) == <<v>>

\* cs.slice(-n)
SliceLast(cs, n) == SubSeq(cs, Max(1, Len(cs) - n + 1), Len(cs))

HighestOf(cs) == CHOOSE x \in {cs[i].high : i \in 1..Len(cs)} :
                    \A i \in 1..Len(cs) : cs[i].high <= x
LowestOf(cs) == CHOOSE x \in {cs[i].low : i \in 1..Len(cs)} :
                   \A i \in 1..Len(cs) : cs[i].low >= x

\* mutant: only an empty array is too short
NoCandles(n, least) == n < 1

\* recentCandles.length < 5, candles.length < 10
TooFew(n, least) == n < least

\* "1. Determine Base Mode"
BaseMode(lastPrice, prof, recent) ==
    LET last == recent[Len(recent)]
        recentHighs == HighestOf(SliceLast(recent, 5))
        recentLows == LowestOf(SliceLast(recent, 5))
        distToVAH == Abs(lastPrice - prof.vah)
        distToVAL == Abs(lastPrice - prof.val)
        range == prof.vah - prof.val
    IN  IF recentHighs > prof.vah /\ lastPrice < prof.vah /\ last.close < last.open
            THEN "FAILED_AUCTION_HIGH"
        ELSE IF recentLows < prof.val /\ lastPrice > prof.val /\ last.close > last.open
            THEN "FAILED_AUCTION_LOW"
        ELSE IF lastPrice > prof.vah THEN "INITIATIVE_BUY"
        ELSE IF lastPrice < prof.val THEN "INITIATIVE_SELL"
        ELSE IF 10 * distToVAH < range \/ 10 * distToVAL < range THEN "ROTATIONAL"
        ELSE "BALANCED"

\* mutant: a failed auction with the delta against it adds 40
ConfidenceOfSurer(mode, last, lastPrice, vwap) ==
    LET delta == last.delta
        bonus == (IF mode = "INITIATIVE_BUY" /\ delta > 0 /\ lastPrice > vwap
                    THEN 25 ELSE 0)
               + (IF mode = "INITIATIVE_SELL" /\ delta < 0 /\ lastPrice < vwap
                    THEN 25 ELSE 0)
               + (IF mode = "FAILED_AUCTION_HIGH" /\ delta < 0 THEN 40 ELSE 0)
               + (IF mode = "FAILED_AUCTION_LOW" /\ delta > 0 THEN 40 ELSE 0)
               + (IF mode = "BALANCED" /\ 10 * Abs(delta) < last.volume
                    THEN 20 ELSE 0)
    IN  Min(100, Max(0, 50 + bonus))

\* "2. Calculate Confidence"
ConfidenceOf(mode, last, lastPrice, vwap) ==
    LET delta == last.delta
        bonus == (IF mode = "INITIATIVE_BUY" /\ delta > 0 /\ lastPrice > vwap
                    THEN 25 ELSE 0)
               + (IF mode = "INITIATIVE_SELL" /\ delta < 0 /\ lastPrice < vwap
                    THEN 25 ELSE 0)
               + (IF mode = "FAILED_AUCTION_HIGH" /\ delta < 0 THEN 30 ELSE 0)
               + (IF mode = "FAILED_AUCTION_LOW" /\ delta > 0 THEN 30 ELSE 0)
               + (IF mode = "BALANCED" /\ 10 * Abs(delta) < last.volume
                    THEN 20 ELSE 0)
    IN  Min(100, Max(0, 50 + bonus))

\* "3. Scenario Generation": the bias
BiasOf(mode, lastPrice, prof) ==
    IF mode \in {"INITIATIVE_BUY", "FAILED_AUCTION_LOW"} THEN "bullish"
    ELSE IF mode \in {"INITIATIVE_SELL", "FAILED_AUCTION_HIGH"} THEN "bearish"
    ELSE IF mode = "ROTATIONAL"
        THEN (IF lastPrice > prof.poc THEN "bullish" ELSE "bearish")
    ELSE "neutral"

calculateAuctionContext(lastPrice, prof, vwap, recentCandles) ==
    IF TooFew(Len(recentCandles), MinContextCandles)
    THEN Context("BALANCED", 0, "neutral")
    ELSE LET mode == BaseMode(lastPrice, prof, recentCandles)
         IN  Context(mode,
                     ConfidenceOf(mode, recentCandles[Len(recentCandles)],
                                  lastPrice, vwap),
                     BiasOf(mode, lastPrice, prof))

determineCVDState(cs) ==
    IF TooFew(Len(cs), MinCvdCandles) THEN "NEUTRAL"
    ELSE LET recent == SliceLast(cs, 10)
             cvdValues == {recent[i].cvd : i \in 1..Len(recent)}
             slope == recent[Len(recent)].cvd - recent[1].cvd
             range == (CHOOSE x \in cvdValues : \A y \in cvdValues : y <= x)
                      - (CHOOSE x \in cvdValues : \A y \in cvdValues : y >= x)
             priceChange == recent[Len(recent)].close - recent[1].close
         IN  IF Abs(slope) < CvdFlat
             THEN (IF range < CvdRange THEN "NEUTRAL" ELSE "ABSORPTION")
             ELSE IF slope > 0
             THEN (IF priceChange > 0 THEN "EXPANSION_UP" ELSE "ABSORPTION")
             ELSE (IF priceChange < 0 THEN "EXPANSION_DOWN" ELSE "DISTRIBUTION")

IbDuration == 60 * 60 * 1000

calculateSessionLevels(cs) ==
    IF TooFew(Len(cs), 1)
    THEN [ibHigh |-> Null, ibLow |-> Null, vwap |-> Null,
          sessionHigh |-> 0, sessionLow |-> 0]
    ELSE LET start == cs[1].timestamp
             inIb == SelectSeq(cs, LAMBDA c : c.timestamp < start + IbDuration)
             ibEstablished == Len(inIb) < Len(cs)
             last == cs[Len(cs)]
         IN  [ibHigh |-> IF ibEstablished THEN Some(HighestOf(inIb)) ELSE Null,
              ibLow |-> IF ibEstablished THEN Some(LowestOf(inIb)) ELSE Null,
              vwap |-> IF last.vwap = 0 THEN Null ELSE Some(last.vwap),
              sessionHigh |-> HighestOf(cs),
              sessionLow |-> LowestOf(cs)]

\* The chart's candles: a rising bar, a falling bar and a narrow bar, one
\* every half hour.
BarMs == 30 * 60 * 1000
Bar(open, close, low, high, volume, delta, cvd, vwap) ==
    [open |-> open, close |-> close, low |-> low, high |-> high,
     volume |-> volume, delta |-> delta, cvd |-> cvd, vwap |-> vwap]
Bars == {Bar(0, 2, 0, 2, 2, 2, 0, 1), Bar(2, 0, 0, 2, 2, 0 - 2, 1500, 1),
         Bar(1, 1, 1, 1, 1, 0, 3000, 0)}
Stamped(bar, i) ==
    [timestamp |-> (i - 1) * BarMs] @@ bar

\* ProfileChart's analytics of one candle array: lastPrice is the last close,
\* the vwap handed over is sessionLevels.vwap || lastPrice, the context is
\* computed from the last 20 candles.
AnalysisOf(cs) ==
    LET lastPrice == IF Len(cs) > 0 THEN cs[Len(cs)].close ELSE 0
        prof == calculateProfile(cs, 1)
        sessionLevels == calculateSessionLevels(cs)
        vwap == IF sessionLevels.vwap = Null THEN lastPrice
                ELSE sessionLevels.vwap[1]
    IN  [profile |-> prof,
         sessionLevels |-> sessionLevels,
         context |-> calculateAuctionContext(lastPrice, prof, vwap, SliceLast(cs, 20)),
         cvd |-> determineCVDState(cs)]

FeedIdle == feed = <<>> /\ analysis = AnalysisOf(<<>>)

\* the second engine as constructed
NewEngine == [events |-> <<>>, failCooldowns |-> <<>>, returned |-> <<>>]
TwinIdle == twin = NewEngine
LoopIdle == tradesBuffer = <<>>
PureIdle == profileCalls = 0

\* the chart rendered with one more candle
receive(bar) ==
    /\ feed' = Append(feed, Stamped(bar, Len(feed) + 1))
    /\ analysis' = AnalysisOf(feed')

----------------------------------------------------------------------------
(* OrderFlowDashboard: the engine it owns *)

\* useState<PersistenceWindow>(30)
FirstWindow == Timed(DefaultWindow)

\* prev === 15 ? 30 : prev === 30 ? 60 : 15
NextWindowOf(prev) ==
    IF prev = Timed(15) THEN Timed(30)
    ELSE IF prev = Timed(30) THEN Timed(60) ELSE Timed(15)

NoReset == [calls |-> 0 - 1, time |-> 0, events |-> <<>>, cooldowns |-> <<>>]

DashIdle == persistenceWindow = FirstWindow /\ lastReset = NoReset

\* mutant: the cooldowns of the old engine are carried over
resetKeepingCooldowns(window) ==
    /\ events' = <<>>
    /\ failLog' = {}
    /\ windowMinutes' = IF window.session THEN SessionWindow ELSE window.minutes
    /\ lastReset' = [calls |-> calls, time |-> now, events |-> events,
                     cooldowns |-> failCooldowns]
    /\ UNCHANGED <<failCooldowns, now, callTimes, returned, tick>>

\* eventEngine.current = new EventEngine();
\* eventEngine.current.setWindow(persistenceWindow);
\* returned is the persistentEvents state, which stays until the next tick.
resetEngine(window) ==
    /\ events' = <<>>
    /\ failCooldowns' = <<>>
    /\ failLog' = {}
    /\ windowMinutes' = IF window.session THEN SessionWindow ELSE window.minutes
    /\ lastReset' = [calls |-> calls, time |-> now, events |-> events,
                     cooldowns |-> failCooldowns]
    /\ UNCHANGED <<now, callTimes, returned, tick>>

\* The tick size field of the configuration set to 0 or below.
BadTickSizes == {0, 0 - 1, 0 - 2}

ProfileIdle == candles = <<>> /\ tickSize = 1 /\ profile = EmptyProfile

Init ==
    /\ EngineInit /\ ProfileIdle /\ EnrichIdle /\ DomIdle /\ ZonesIdle
    /\ ChartIdle /\ DashIdle /\ FeedIdle /\ TwinIdle /\ LoopIdle /\ PureIdle

Next == Process

Spec == Init /\ [][Next]_vars

\* The engine with its window setting changed at any time, fed one bid level
\* at long intervals.
LongSteps == {70000, 900000}
WindowPrices == {49900, 50003}
WindowBids == {<<>>, <<Absorb(BidPrice)>>, <<Iceberg(BidPrice)>>}

ProcessSlow ==
    /\ calls < MaxWindowCalls
    /\ \E dt \in LongSteps, lastPrice \in WindowPrices, bids \in WindowBids :
            process(dt, bids, <<>>, lastPrice)
    /\ UNCHANGED besidesEngine

NextWindow == ProcessSlow \/ SetWindow

SpecWindow == Init /\ [][NextWindow]_vars

\* calculateProfile called on a growing candle array.
InitProfile ==
    /\ EngineInit
    /\ EnrichIdle
    /\ DomIdle
    /\ ZonesIdle
    /\ ChartIdle
    /\ DashIdle
    /\ FeedIdle /\ TwinIdle /\ LoopIdle /\ PureIdle
    /\ candles = <<>>
    /\ tickSize \in TickSizes
    /\ profile = calculateProfile(<<>>, tickSize)

AddCandle ==
    /\ Len(candles) < MaxCandles
    /\ \E c \in Candles :
          /\ candles' = Append(candles, c)
          /\ profile' = calculateProfile(candles', tickSize)
    /\ UNCHANGED <<tickSize, besidesProfile>>

NextProfile == AddCandle

SpecProfile == InitProfile /\ [][NextProfile]_vars

\* mutant: totalVolume is declared outside the function and keeps its value
profileCallKeepingTotal(held, cs, size) ==
    [calculateProfile(cs, size) EXCEPT
        !.totalVolume = IF Len(cs) = 0 THEN 0 ELSE @ + held.totalVolume]

\* One call of calculateProfile by a caller that holds the metrics of the call
\* before: the function declares volumeMap, sessionHigh, sessionLow,
\* totalVolume and levels inside its body and reads nothing else.
profileCall(held, cs, size) == calculateProfile(cs, size)

\* calculateProfile called with one more candle, or once more with the array
\* of the call before.
CallProfile ==
    /\ profileCalls < MaxProfileCalls
    /\ Len(candles) < MaxCandles
    /\ \E c \in Candles :
          /\ candles' = Append(candles, c)
          /\ profile' = profileCall(profile, candles', tickSize)
    /\ profileCalls' = profileCalls + 1
    /\ UNCHANGED <<tickSize, besidesPure>>

CallAgain ==
    /\ profileCalls < MaxProfileCalls
    /\ profile' = profileCall(profile, candles, tickSize)
    /\ profileCalls' = profileCalls + 1
    /\ UNCHANGED <<candles, tickSize, besidesPure>>

NextPure == CallProfile \/ CallAgain

SpecPure == InitProfile /\ [][NextPure]_vars

\* The same with a tick size of 0 or below.
InitBadTick ==
    /\ EngineInit /\ EnrichIdle /\ DomIdle /\ ZonesIdle /\ ChartIdle /\ DashIdle
    /\ FeedIdle /\ TwinIdle /\ LoopIdle /\ PureIdle
    /\ candles = <<>>
    /\ tickSize \in BadTickSizes
    /\ profile = calculateProfile(<<>>, tickSize)

SpecBadTick == InitBadTick /\ [][NextProfile]_vars

\* enrichCandlesWithContext called on a growing candle array, as the chart
\* does whenever its candles change.  Candles arrive in the order of time.
AddFlowCandle ==
    /\ Len(series) < MaxSeries
    /\ \E c \in FlowCandles :
          /\ IF series = <<>> THEN TRUE
                ELSE series[Len(series)].timestamp < c.timestamp
          /\ series' = Append(series, c)
          /\ enriched' = enrichCandlesWithContext(series')
    /\ UNCHANGED besidesEnrich

NextEnrich == AddFlowCandle

SpecEnrich == Init /\ [][NextEnrich]_vars

\* One side of the book analysed tick after tick, the previous output being
\* the previous map, as the dashboard's analytics loop does.
InitDom ==
    /\ EngineInit /\ ProfileIdle /\ EnrichIdle /\ ZonesIdle /\ ChartIdle /\ DashIdle
    /\ FeedIdle /\ TwinIdle /\ LoopIdle /\ PureIdle
    /\ domSide \in {"bid", "ask"}
    /\ prevState = <<>>
    /\ domOut = <<>>
    /\ domIn = NoDomCall
    /\ domSeen = <<>>

AnalyzeTick ==
    /\ Len(domSeen) < MaxTicks
    /\ \E levels \in Snapshots, trades \in TradeFlows :
          /\ domOut' = analyzeDOM(levels, prevState, trades, domSide)
          /\ prevState' = LevelMap(domOut')
          /\ domIn' = [levels |-> levels, trades |-> trades, prev |-> prevState]
          /\ domSeen' = Append(domSeen, {levels[i].price : i \in 1..Len(levels)})
    /\ UNCHANGED <<domSide, besidesDom>>

NextDom == AnalyzeTick

SpecDom == InitDom /\ [][NextDom]_vars

\* OrderBookDelta: the accumulation effect, the engine loop, the reset
\* button and a change of symbol, from an engine that is new or has seen a
\* steady price for 19 updates.
InitZones ==
    /\ EngineInit /\ ProfileIdle /\ EnrichIdle /\ DomIdle /\ ChartIdle /\ DashIdle
    /\ FeedIdle /\ TwinIdle /\ LoopIdle /\ PureIdle
    /\ recentPrices \in {<<>>, SteadyWindow}
    /\ volatility = VolatilityOf(recentPrices)
    /\ priceSymbols = [i \in 1..Len(recentPrices) |-> "BTCUSDT"]
    /\ deltaMap = <<>>
    /\ zoneNow = 1
    /\ symbol = "BTCUSDT"
    /\ adaptive = NoAdaptive
    /\ zoneTick = NoZoneTick
    /\ zoneSteps = 0

AccumulationEffect ==
    /\ zoneSteps < MaxZoneSteps
    /\ \E dt \in ZoneGaps, book \in Books, lastPrice \in DeltaPrices :
          \E trades \in Prints(zoneNow + dt) :
              Accumulate(dt, book, <<>>, lastPrice, trades)
    /\ UNCHANGED besidesZones

EngineTick ==
    /\ zoneSteps < MaxZoneSteps
    /\ \E dt \in TickGaps, config \in PLAYBOOKS, customPriceGroup \in {NoGroup, 10},
          isAutoGroup \in BOOLEAN, lastPrice \in {100} :
              engineTick(dt, config, customPriceGroup, isAutoGroup, lastPrice)
    /\ UNCHANGED besidesZones

\* aggregateZones called with the exact-price grouping
ExactTick ==
    /\ zoneSteps < MaxZoneSteps
    /\ \E dt \in TickGaps :
          /\ zoneNow' = zoneNow + dt
          /\ zoneTick' = Aggregated(0, 60000 * 5, 100, zoneNow')
    /\ zoneSteps' = zoneSteps + 1
    /\ UNCHANGED <<recentPrices, volatility, deltaMap, symbol, priceSymbols, adaptive>>
    /\ UNCHANGED besidesZones

HandleReset == handleReset /\ UNCHANGED besidesZones

NextZones == AccumulationEffect \/ EngineTick \/ ExactTick \/ HandleReset

SpecZones == InitZones /\ [][NextZones]_vars

\* aggregateZones called on a map of six prices, ten apart: five hold the
\* same quantity, none or ten, the sixth a smaller, an equal or a larger one
\* and, or not, an execution.  The map is what the accumulation effect makes
\* of such a book at time 1.
ScorePrice == 100 + 20
SidePrices == <<100, 110, 130, 140, 150>>
ScoreBook(side, own) ==
    [i \in 1..5 |-> Level(SidePrices[i], side)] \o <<Level(ScorePrice, own)>>
ScoreBooks == {ScoreBook(side, own) : side \in {0, 10}, own \in {1, 10, 25}}
ScorePrints == {<<>>, <<[price |-> ScorePrice, qty |-> 2, time |-> 1]>>}
ScoreMaps ==
    {Attribute(UpdateLevels(<<>>, book, 1, "BTCUSDT"), trades, 1) :
        book \in ScoreBooks, trades \in ScorePrints}
WildWindow == <<100, 300, 100, 300, 100>>
ScoreGaps == {1000, 30000, 100000}
ScoreGroups == {0, 10, 20}
ScoreLastPrices == {120, 125, 300}

InitScore ==
    /\ EngineInit /\ ProfileIdle /\ EnrichIdle /\ DomIdle /\ ChartIdle /\ DashIdle
    /\ FeedIdle /\ TwinIdle /\ LoopIdle /\ PureIdle
    /\ recentPrices \in {<<>>, WildWindow}
    /\ volatility = VolatilityOf(recentPrices)
    /\ priceSymbols = [i \in 1..Len(recentPrices) |-> "BTCUSDT"]
    /\ deltaMap \in ScoreMaps
    /\ zoneNow = 1
    /\ symbol = "BTCUSDT"
    /\ adaptive = NoAdaptive
    /\ zoneTick = NoZoneTick
    /\ zoneSteps = 0

ScoreTick ==
    /\ zoneSteps < MaxScoreTicks
    /\ \E dt \in ScoreGaps, groupSize \in ScoreGroups, lastPrice \in ScoreLastPrices :
          /\ zoneNow' = zoneNow + dt
          /\ zoneTick' = Aggregated(groupSize, 60000 * 5, lastPrice, zoneNow')
    /\ zoneSteps' = zoneSteps + 1
    /\ UNCHANGED <<recentPrices, volatility, deltaMap, symbol, priceSymbols, adaptive>>
    /\ UNCHANGED besidesZones

NextScore == ScoreTick

SpecScore == InitScore /\ [][NextScore]_vars

\* The SmartGroupingEngine fed prices and asked for the group size.
VolPrices == {100, 110, 160, 300}
Bases == {5, 25, 100, 500}

UpdateVolatility ==
    /\ zoneSteps < MaxUpdates
    /\ \E currentPrice \in VolPrices : updateVolatility(currentPrice)
    /\ zoneSteps' = zoneSteps + 1
    /\ UNCHANGED <<deltaMap, zoneNow, symbol, adaptive, zoneTick>>
    /\ UNCHANGED besidesZones

GetAdaptiveGroupSize ==
    /\ \E baseGroup \in Bases :
          adaptive' = [base |-> baseGroup,
                       size |-> getAdaptiveGroupSize(volatility, baseGroup),
                       vol |-> volatility, prices |-> recentPrices]
    /\ UNCHANGED <<recentPrices, volatility, deltaMap, zoneNow, symbol,
                   priceSymbols, zoneTick, zoneSteps>>
    /\ UNCHANGED besidesZones

NextVolatility == UpdateVolatility \/ GetAdaptiveGroupSize

SpecVolatility == InitZones /\ [][NextVolatility]_vars

\* ProfileChart rendered again and again with the context of the moment.
Render ==
    /\ chartTick.renders < MaxRenders
    /\ \E dt \in RenderGaps, instant \in InstantContexts \cup SureContexts :
          render(dt, instant)
    /\ UNCHANGED besidesChart

NextChart == Render

SpecChart == Init /\ [][NextChart]_vars

\* The dashboard: its analytics loop, the persistence window button, the
\* Clear Events button and a change of the symbol prop.
DashSteps == {400, 900000}
DashPrices == {49900, 50003}

IntervalTick ==
    /\ calls < MaxDashCalls
    /\ \E dt \in DashSteps, lastPrice \in DashPrices, bids \in WindowBids :
            process(dt, bids, <<>>, lastPrice)
    /\ UNCHANGED besidesEngine

\* the button and the effect its state change runs
CycleWindow ==
    /\ persistenceWindow' = NextWindowOf(persistenceWindow)
    /\ setWindow(NextWindowOf(persistenceWindow))
    /\ UNCHANGED <<lastReset, zoneVars, besidesDashboard>>

ClearEvents ==
    /\ resetEngine(persistenceWindow)
    /\ UNCHANGED <<persistenceWindow, zoneVars, besidesDashboard>>

\* the effect on [symbol]; OrderBookDelta receives the same prop, and its
\* refs (deltaMap, engine) survive the render
SymbolChange ==
    /\ \E next \in Symbols \ {symbol} : symbol' = next
    /\ resetEngine(persistenceWindow)
    /\ UNCHANGED <<persistenceWindow, recentPrices, volatility, deltaMap,
                   zoneNow, priceSymbols, adaptive, zoneTick, zoneSteps,
                   besidesDashboard>>

NextDashboard == IntervalTick \/ CycleWindow \/ ClearEvents \/ SymbolChange

SpecDashboard == Init /\ [][NextDashboard]_vars

\* OrderBookDelta while the dashboard is handed another symbol.
EffectAroundSwitch == zoneSteps < MaxSwitchSteps /\ AccumulationEffect
TickAroundSwitch == zoneSteps < MaxSwitchSteps /\ EngineTick

NextSwitch == EffectAroundSwitch \/ TickAroundSwitch \/ SymbolChange

SpecSwitch == InitZones /\ [][NextSwitch]_vars

\* The chart's analytics recomputed as candles arrive.
Receive ==
    /\ Len(feed) < MaxBars
    /\ \E bar \in Bars : receive(bar)
    /\ UNCHANGED besidesFeed

NextAnalysis == Receive

SpecAnalysis == Init /\ [][NextAnalysis]_vars

\* The chart rendered with the context of its own candles: a render when a
\* candle arrives and a render on the same candles.  The candles before the
\* fifth, which all give the context of too few candles, arrive one frame
\* apart.
StableGaps == {2000, 2001}
FrameGap == 1000 \div 60
Settling(dt) == Len(feed) < MinContextCandles - 1 => dt = FrameGap

RenderWithCandle ==
    /\ Len(feed) < MaxStableBars /\ chartTick.renders < MaxStableRenders
    /\ \E bar \in Bars, dt \in StableGaps \cup {FrameGap} :
          /\ Settling(dt)
          /\ receive(bar)
          /\ render(dt, AnalysisOf(Append(feed, Stamped(bar, Len(feed) + 1))).context)
    /\ UNCHANGED <<engineVars, profileVars, enrichVars, domVars, zoneVars,
                   dashVars, twinVars, loopVars, pureVars>>

RenderAgain ==
    /\ Len(feed) >= MinContextCandles /\ chartTick.renders < MaxStableRenders
    /\ \E dt \in StableGaps : render(dt, analysis.context)
    /\ UNCHANGED <<feedVars, besidesChart>>

NextStable == RenderWithCandle \/ RenderAgain

SpecStable == Init /\ [][NextStable]_vars

\* The engine polled at a fixed cadence while one bid level rests in the book
\* as a large stack on every call; its quantity varies and the price stays at
\* or above the level or just below it, within the tolerance.
Cadences == {400, 12000, 70000}
Half(price) == [Quiet(price) EXCEPT !.age = 6, !.qty = 8]
StackBooks == {<<Stack(BidPrice)>>, <<Half(BidPrice)>>, <<Thin(BidPrice)>>}
RestingPrices == {50000, 50003}

\* dt repeats the interval of the two calls before
OnCadence(dt) ==
    calls >= 2 => dt = callTimes[calls] - callTimes[calls - 1]

ProcessStack ==
    /\ calls < MaxStackCalls
    /\ \E dt \in Cadences, lastPrice \in RestingPrices, bids \in StackBooks :
          /\ OnCadence(dt)
          /\ process(dt, bids, <<>>, lastPrice)
    /\ UNCHANGED besidesEngine

NextStack == ProcessStack

SpecStack == Init /\ [][NextStack]_vars

\* The same feed with a price that can fall through the level.
FallingPrices == RestingPrices \cup {49900}

ProcessFall ==
    /\ calls < MaxStackCalls
    /\ \E dt \in Cadences, lastPrice \in FallingPrices, bids \in StackBooks :
          /\ OnCadence(dt)
          /\ process(dt, bids, <<>>, lastPrice)
    /\ UNCHANGED besidesEngine

NextFall == ProcessFall

SpecFall == Init /\ [][NextFall]_vars

\* The engine with its window set once before the first call, fed one bid
\* level for a while and called on an empty book from then on, as the
\* dashboard's interval keeps calling it, until every window has run out.
ExpireWindows == {Timed(15), Timed(30)}
ExpireSteps == {60000, 900000}
ExpirePrices == {49900, 50003}
ExpireBids == {<<>>, <<Absorb(BidPrice)>>, <<Iceberg(BidPrice)>>}
QuietStep == 15 * 60000
ExpireHorizon == (MaxFeedCalls + 3) * QuietStep

SetWindowFirst ==
    /\ calls = 0 /\ windowMinutes = DefaultWindow
    /\ \E window \in ExpireWindows \ {Timed(DefaultWindow)} : setWindow(window)
    /\ UNCHANGED besidesEngine

ProcessFeed ==
    /\ calls < MaxFeedCalls
    /\ \E dt \in ExpireSteps, lastPrice \in ExpirePrices, bids \in ExpireBids :
          process(dt, bids, <<>>, lastPrice)
    /\ UNCHANGED besidesEngine

ProcessQuiet ==
    /\ calls >= MaxFeedCalls /\ now <= ExpireHorizon
    /\ \E lastPrice \in ExpirePrices : process(QuietStep, <<>>, <<>>, lastPrice)
    /\ UNCHANGED besidesEngine

NextExpire == SetWindowFirst \/ ProcessFeed \/ ProcessQuiet

\* setInterval keeps the calls coming every 100 ms.
SpecExpire ==
    Init /\ [][NextExpire]_vars /\ WF_vars(ProcessFeed) /\ WF_vars(ProcessQuiet)

\* One bid level of every combination of flags, of an absorption at and above
\* 1.5, an age at and above 5 and a notional below and above 150000, at a
\* price before or behind it.
AnyLevel ==
    {[price |-> BidPrice, qty |-> q, isIceberg |-> i, absorption |-> a,
      isSpoof |-> sp, age |-> g] :
        q \in {2, 3}, i \in BOOLEAN, a \in {15, 20}, sp \in BOOLEAN, g \in {5, 6}}
DetectPrices == {49900, 50003}

ProcessDetect ==
    /\ calls < MaxDetectCalls
    /\ \E lastPrice \in DetectPrices, lvl \in AnyLevel :
          process(400, <<lvl>>, <<>>, lastPrice)
    /\ UNCHANGED besidesEngine

NextDetect == ProcessDetect

SpecDetect == Init /\ [][NextDetect]_vars

\* Two engines given the same calls at the same times: Math.random() falls
\* either way in the first and never above 0.95 in the second.  The book has
\* at most one bid, in the bucket of 50000 or in the bucket of 50010, and one
\* ask in the bucket of 50010; the pauses are long enough for a cooldown to
\* run out between two calls, or shorter than a cooldown and longer than two
\* minutes.  The first call sees a bid and an ask on either side of the price.
FarBid == 50000 + 11
FarAsk == 50000 + 12
PurgeBids == BidBooks \cup {<<Absorb(FarBid)>>, <<Iceberg(FarBid)>>}
PurgeAsks == {<<>>, <<Stack(FarAsk)>>, <<Iceberg(FarAsk)>>}
PurgeSteps == {200000, 400000}

Opening(bids, asks, lastPrice) ==
    calls = 0 => /\ bids = <<Absorb(BidPrice)>>
                 /\ asks = <<Stack(FarAsk)>>
                 /\ lastPrice = 50003

\* the last pause is the short one
PurgePause(dt) == dt = IF calls = MaxPurgeCalls - 1 THEN 200000 ELSE 400000

\* EventEngine.process in the second engine, Math.random() <= 0.95
processTwin(dt, bids, asks, lastPrice) ==
    LET t == now + dt
        withBids == processLevels(twin.events, bids, "bid", t, lastPrice)
        detected == processLevels(withBids, asks, "ask", t, lastPrice)
        sm == StateMachine(detected,
                  [evs |-> <<>>, cd |-> twin.failCooldowns, seen |-> {}],
                  t, lastPrice, WindowMs(windowMinutes))
    IN  twin' = [events |-> sm.evs, failCooldowns |-> sm.cd,
                 returned |-> Renderable(sm.evs)]

ProcessBoth ==
    /\ calls < MaxPurgeCalls
    /\ \E dt \in PurgeSteps, lastPrice \in LastPrices,
          bids \in PurgeBids, asks \in PurgeAsks :
            /\ PurgePause(dt)
            /\ Opening(bids, asks, lastPrice)
            /\ process(dt, bids, asks, lastPrice)
            /\ processTwin(dt, bids, asks, lastPrice)
    /\ UNCHANGED besidesBoth

NextPurge == ProcessBoth

SpecPurge == Init /\ [][NextPurge]_vars

\* The dashboard's stream callbacks and its analytics loop, for the side of
\* the book that is followed; the other side of the book stays empty.  A
\* trade carries the time of its arrival.  The loop runs every 100 ms, or
\* later when the timer is held back.
BufferCap == 500
RecentMs == 1500
LoopSteps == {100, 1500}
TradeSizes == {2, 3}
LoopSnapshots ==
    {<<>>, <<Level(NearPrice, 10)>>, <<Level(NearPrice, 1)>>,
     <<Level(FarPrice, 10)>>}

\* tradesBuffer.current.unshift(newTrade); pop() beyond 500
onTrade(newTrade) ==
    tradesBuffer' =
        IF Len(tradesBuffer) + 1 > BufferCap
            THEN SubSeq(<<newTrade>> \o tradesBuffer, 1, Len(tradesBuffer))
            ELSE <<newTrade>> \o tradesBuffer

OnTrade ==
    /\ Len(tradesBuffer) < MaxTrades
    /\ \E qty \in TradeSizes, isBuyerMaker \in BOOLEAN :
          onTrade([id |-> Len(tradesBuffer) + 1, price |-> NearPrice,
                   qty |-> qty, time |-> now, isBuyerMaker |-> isBuyerMaker])
    /\ UNCHANGED <<engineVars, domVars, besidesLoop>>

\* tradesBuffer.current.filter(t => (now - t.time) < 1500)
RecentTrades(t) ==
    SelectSeq(tradesBuffer, LAMBDA tr : (t - tr.time) < RecentMs)

\* an enriched level as the engine reads it: absorption in tenths, rounded
\* up, which keeps the engine's test absorption > 1.5 exact
EngineLevel(l) ==
    [price |-> l.price, qty |-> l.qty, isIceberg |-> l.isIceberg,
     absorption |-> (10 * l.absorption[1] + l.absorption[2] - 1)
                        \div l.absorption[2],
     isSpoof |-> l.isSpoof, age |-> l.age]

EngineLevels(ls) == [i \in 1..Len(ls) |-> EngineLevel(ls[i])]

\* the callback of setInterval; rawLevels is the snapshot the depth callback
\* stored last for the followed side
analyticsLoop(dt, rawLevels) ==
    LET recentTrades == RecentTrades(now + dt)
        enrichedLevels == analyzeDOM(rawLevels, prevState, recentTrades, domSide)
        rawBids == IF domSide = "bid" THEN rawLevels ELSE <<>>
        forEngine == EngineLevels(enrichedLevels)
    IN  /\ domOut' = enrichedLevels
        /\ prevState' = LevelMap(enrichedLevels)
        /\ domIn' = [levels |-> rawLevels, trades |-> recentTrades,
                     prev |-> prevState]
        /\ domSeen' = Append(domSeen,
                             {rawLevels[i].price : i \in 1..Len(rawLevels)})
        /\ process(dt,
                   IF domSide = "bid" THEN forEngine ELSE <<>>,
                   IF domSide = "ask" THEN forEngine ELSE <<>>,
                   IF rawBids = <<>> THEN 0 ELSE rawBids[1].price)

LoopTick ==
    /\ calls < MaxLoopTicks
    /\ \E dt \in LoopSteps, rawLevels \in LoopSnapshots :
          analyticsLoop(dt, rawLevels)
    /\ UNCHANGED <<domSide, tradesBuffer, besidesLoop>>

NextLoop == OnTrade \/ LoopTick

SpecLoop == InitDom /\ [][NextLoop]_vars

\* The level polled every 70 s: it rests as a large stack above the price
\* until the last three polls, where it may thin out, be refilled as an
\* iceberg or be absent, and the price may fall through it.
Refill(price) == [Iceberg(price) EXCEPT !.qty = 20]
PromoteBooks == StackBooks \cup {<<Refill(BidPrice)>>, <<>>}
PromotePrices == {49900, 50003}
Resting == calls < MaxStackCalls - 3

ProcessPromote ==
    /\ calls < MaxStackCalls
    /\ \E lastPrice \in PromotePrices, bids \in PromoteBooks :
          /\ Resting => lastPrice = 50003 /\ bids = <<Stack(BidPrice)>>
          /\ process(70000, bids, <<>>, lastPrice)
    /\ UNCHANGED besidesEngine

NextPromote == ProcessPromote

SpecPromote == Init /\ [][NextPromote]_vars

----------------------------------------------------------------------------
(* Vocabulary of the claims about EventEngine *)

Elems(seq) == {seq[i] : i \in 1..Len(seq)}
Tracked == Elems(events)
Event(id) == Get(events, id)

\* A breach as the specification words it, with tolerance 0.03% of lastPrice.
PriceBroke(side, price, lastPrice) ==
    IF side = "bid" THEN lastPrice * 10003 < price * 10000
                    ELSE lastPrice * 9997 > price * 10000

\* The events the last call found breached: tracked and not yet failed after
\* the detection phase, not expired, and with their price broken.
BreachedNow ==
    {d \in Elems(tick.detected) :
        /\ ~d.isFailed
        /\ Has(events, d.id)
        /\ PriceBroke(d.side, d.price, tick.lastPrice)}

PriceBucket(price) == price - (price % 10)

\* An earlier or simultaneous FAIL of another event of the bucket whose
\* five minutes have not passed at time t.
CoolingDown(d, t) ==
    \E f \in failLog :
        /\ f.bucket = PriceBucket(d.price)
        /\ ~(f.id = d.id /\ f.born = d.firstDetected)
        /\ t - f.failTime <= 300000

\* The levels of the last call, with their side.
Offered == {<<"bid", tick.bids[i]>> : i \in 1..Len(tick.bids)}
           \cup {<<"ask", tick.asks[i]>> : i \in 1..Len(tick.asks)}

----------------------------------------------------------------------------
\* C1: two distinct events of one 10-unit price bucket that both reach FAIL
\* have failTime values more than 300000 ms apart, and an event of a bucket
\* breached while that bucket's cooldown is active becomes BROKEN, not FAIL.
C1_FailCooldown ==
    /\ \A a, b \in failLog :
          (a # b /\ a.bucket = b.bucket) => Abs(a.failTime - b.failTime) > 300000
    /\ \A d \in BreachedNow :
          CoolingDown(d, now) => Event(d.id).state = "BROKEN"

C1_Witness ==
    \E a, b \in failLog : a # b /\ a.bucket = b.bucket

C1_WitnessBroken ==
    \E d \in BreachedNow :
        /\ CoolingDown(d, now)
        /\ now - d.firstDetected > 60000
        /\ Event(d.id).state = "BROKEN"

\* C2: an event breached in a call where now - firstDetected <= 60000 becomes
\* BROKEN and never FAIL; every FAIL has failTime - firstDetected > 60000.
C2_YoungBreachBroken ==
    /\ \A d \in BreachedNow :
          now - d.firstDetected <= 60000 => Event(d.id).state = "BROKEN"
    /\ \A e \in Tracked :
          e.state = "FAIL" => e.failTime - e.firstDetected > 60000

C2_Witness ==
    \E d \in BreachedNow :
        /\ now - d.firstDetected <= 60000
        /\ now - d.firstDetected > 0
        /\ Event(d.id).state = "BROKEN"

C3_WitnessFail ==
    \E d \in BreachedNow : Event(d.id).state = "FAIL"

\* C6: the array process() returns holds exactly the tracked events whose
\* state is not BROKEN; no BROKEN event is returned.
C6_ReturnedHidesBroken ==
    /\ \A i \in 1..Len(returned) :
          returned[i].state # "BROKEN" /\ returned[i] \in Tracked
    /\ \A e \in Tracked : e.state # "BROKEN" => e \in Elems(returned)
    /\ Len(returned) = Cardinality({e \in Tracked : e.state # "BROKEN"})

C6_Witness ==
    /\ \E e \in Tracked : e.state = "BROKEN"
    /\ \E e \in Tracked : e.state = "FAIL"
    /\ Len(returned) = 1

\* C7: once an event is FAIL or BROKEN, every later process() call that keeps
\* it leaves state, type, volume, peakVolume, confirmations, lastConfirmed,
\* failedPushes, failTime and failConfidence unchanged, even when its level is
\* detected again.
Frozen(e) == <<e.state, e.type, e.volume, e.peakVolume, e.confirmations,
               e.lastConfirmed, e.failedPushes, e.failTime, e.failConfidence>>

C7_TerminalFrozen ==
    \A b \in Elems(tick.before) :
        (b.state \in {"FAIL", "BROKEN"} /\ Has(events, b.id))
            => Frozen(Event(b.id)) = Frozen(b)

\* A FAIL event that is kept by a call in which its level is an iceberg.
C7_Witness ==
    \E b \in Elems(tick.before) : \E o \in Offered :
        /\ b.state = "FAIL"
        /\ Has(events, b.id)
        /\ o[1] = b.side /\ o[2].price = b.price /\ o[2].isIceberg
        /\ b.type # "ICE"

\* C9: processLevels creates no event for a bid level with lastPrice < price
\* nor for an ask level with lastPrice > price, and an existing event is
\* reinforced whatever lastPrice is.
IsDetected(lvl) ==
    \/ lvl.isIceberg
    \/ lvl.absorption > 15
    \/ lvl.isSpoof
    \/ (lvl.qty * lvl.price > 150000 /\ lvl.age > 5)

C9_NoEventBehindPrice ==
    /\ \A e \in Elems(tick.detected) :
          ~Has(tick.before, e.id) =>
              /\ e.side = "bid" => tick.lastPrice >= e.price
              /\ e.side = "ask" => tick.lastPrice <= e.price
              /\ e.firstDetected = now
    /\ \A b \in Elems(tick.before) : \A o \in Offered :
          (/\ b.state \notin {"FAIL", "BROKEN"}
           /\ o[1] = b.side /\ o[2].price = b.price /\ IsDetected(o[2]))
            => Get(tick.detected, b.id).confirmations = b.confirmations + 1

\* A detected bid level below which the price has fallen and for which no
\* event exists: none is created.
C9_Witness ==
    \E o \in Offered :
        /\ IsDetected(o[2])
        /\ o[1] = "bid" /\ tick.lastPrice < o[2].price
        /\ ~Has(tick.before, <<o[1], o[2].price>>)
        /\ ~Has(tick.detected, <<o[1], o[2].price>>)

C9_WitnessReinforced ==
    \E b \in Elems(tick.before) :
        /\ b.side = "ask" /\ tick.lastPrice > b.price
        /\ Get(tick.detected, b.id).confirmations = b.confirmations + 1

\* C8: after every process() call with persistence window W (15, 30, 60 or
\* 480 minutes) no tracked non-FAIL event is older than W and no tracked FAIL
\* is more than 120000 ms past its failTime; a FAIL is removed only by that
\* 120000 ms rule, never because its age exceeds W.
C8_Expiry ==
    calls > 0 =>
        /\ tick.windowMinutes \in {15, 30, 60, 480}
        /\ \A e \in Tracked :
              /\ e.state # "FAIL" =>
                    now - e.firstDetected <= tick.windowMinutes * 60000
              /\ e.state = "FAIL" => now - e.failTime <= 120000
        /\ \A b \in Elems(tick.before) :
              /\ (b.state = "FAIL" /\ ~Has(events, b.id))
                    => now - b.failTime > 120000
              /\ (b.state # "FAIL" /\ ~Has(events, b.id))
                    => now - b.firstDetected > tick.windowMinutes * 60000

\* A FAIL that a call keeps although it is older than the window.
C8_Witness ==
    \E b \in Elems(tick.before) :
        /\ b.state = "FAIL"
        /\ Has(events, b.id)
        /\ now > b.failTime
        /\ now - b.firstDetected > tick.windowMinutes * 60000

C8_WitnessRemoved ==
    \E b \in Elems(tick.before) : ~Has(events, b.id) /\ b.state = "FAIL"

C8_WitnessSession ==
    tick.windowMinutes = 480 /\ \E b \in Elems(tick.before) : ~Has(events, b.id)

----------------------------------------------------------------------------
(* The resting stack of SpecStack and SpecFall *)

StackId == <<"bid", BidPrice>>
CallsSince(t) == Cardinality({i \in 1..calls : callTimes[i] >= t})
Ripe(e) == now - e.firstDetected > 120000 /\ e.confirmations > 10
WasStack == \E b \in Elems(tick.before) : b.id = StackId /\ b.state = "STACK"

\* C4: a HOLDING bid event older than 300000 ms with failedPushes > 2 and a
\* volume drop above 0.5, outside any cooldown, is left in state FAIL with
\* failConfidence 100 by a call whose lastPrice is below its price minus the
\* tolerance.  The failed pushes are counted as the specification defines
\* them: re-detections of an event older than 60 s after more than 10 s
\* without confirmation.
C4_ScenarioC ==
    \A d \in BreachedNow : \A b \in Elems(tick.before) :
        (/\ b.id = d.id /\ b.side = "bid" /\ b.state = "HOLDING"
         /\ now - d.firstDetected > 300000
         /\ d.revisits > 2
         /\ 2 * d.volume < d.peakVolume
         /\ ~CoolingDown(d, now))
        => (Event(d.id).state = "FAIL" /\ Event(d.id).failConfidence = 100)

\* What the scenario yields instead: FAIL, with the first-touch penalty.
C4_ScenarioFails ==
    \A d \in BreachedNow : \A b \in Elems(tick.before) :
        (/\ b.id = d.id /\ b.side = "bid" /\ b.state = "HOLDING"
         /\ now - d.firstDetected > 300000
         /\ d.revisits > 2
         /\ 2 * d.volume < d.peakVolume
         /\ ~CoolingDown(d, now))
        => (/\ Event(d.id).state = "FAIL"
            /\ Event(d.id).failConfidence \in {75, 95}
            /\ d.failedPushes = 0)

\* C5 as first stated: after k calls the event is tracked with
\* confirmations = k, in state STACK until the first call where it is older
\* than 120000 ms with more than 10 confirmations, which makes it HOLDING.
C5_AsStated ==
    calls >= 1 =>
        /\ Has(events, StackId)
        /\ Event(StackId).confirmations = calls
        /\ ~Ripe(Event(StackId)) => Event(StackId).state = "STACK"
        /\ (Ripe(Event(StackId)) /\ WasStack) => Event(StackId).state = "HOLDING"

\* C5: a bid level detected as a large stack on every call and never breached
\* is created by the first call whose lastPrice is not below it; k calls later
\* (that call included) it has confirmations = k and is in state STACK until
\* the first call where it is older than 120000 ms with more than 10
\* confirmations: that call leaves it HOLDING, or WEAKENING when its volume
\* is then under 30% of its peak.  No event is HOLDING with 10 confirmations
\* or fewer or at an age of 120000 ms or less.
C5_StackToHolding ==
    calls >= 1 =>
        /\ tick.before = <<>> => (Has(events, StackId) <=> tick.lastPrice >= BidPrice)
        /\ \A b \in Elems(tick.before) :
              now - b.firstDetected <= tick.windowMinutes * 60000 => Has(events, b.id)
        /\ \A e \in Tracked :
              /\ e.confirmations = CallsSince(e.firstDetected)
              /\ e.firstDetected = callTimes[1] => e.confirmations = calls
              /\ ~Ripe(e) => e.state = "STACK"
              /\ Ripe(e) => e.state \in {"HOLDING", "WEAKENING"}
              /\ (Ripe(e) /\ WasStack) =>
                    e.state = (IF 10 * e.volume < 3 * e.peakVolume
                                 THEN "WEAKENING" ELSE "HOLDING")
              /\ e.state = "HOLDING" =>
                    (e.confirmations > 10 /\ now - e.firstDetected > 120000)

\* The call that turns the stack into HOLDING.
C5_Witness ==
    /\ WasStack
    /\ Has(events, StackId)
    /\ Event(StackId).state = "HOLDING"
    /\ Event(StackId).confirmations = 11

C5_WitnessLate ==
    /\ WasStack
    /\ Has(events, StackId)
    /\ Event(StackId).state = "HOLDING"
    /\ Event(StackId).confirmations = 12

----------------------------------------------------------------------------
(* calculateProfile *)

\* the summed volume of the levels priced within [val, vah]
RECURSIVE AreaVolume(_, _, _)
AreaVolume(levels, lo, hi) ==
    IF levels = <<>> THEN 0
    ELSE AreaVolume(Tail(levels), lo, hi)
         + (IF lo <= Head(levels).price /\ Head(levels).price <= hi
              THEN Head(levels).volume ELSE 0)

ValueAreaHolds(p) ==
    /\ p.error = "none"
    /\ p.val <= p.poc /\ p.poc <= p.vah
    /\ 10 * AreaVolume(p.levels, p.val, p.vah) >= 7 * p.totalVolume

\* C10: for every non-empty candle sequence, volumes of 0 included, and every
\* tickSize > 0, calculateProfile returns metrics with val <= poc <= vah whose
\* levels priced within [val, vah] sum to at least 0.70 of totalVolume.
C10_ValueArea ==
    Len(candles) > 0 => ValueAreaHolds(profile)

\* The same for candles of positive volume only: the metrics are returned,
\* and the value area is short only when its lowest level is priced 0.
C10_PositiveVolumes ==
    (Len(candles) > 0 /\ \A i \in 1..Len(candles) : candles[i].volume > 0)
        => /\ profile.error = "none"
           /\ ValueAreaHolds(profile) \/ profile.levels[1].price = 0

\* the passes of the value-area loop where both neighbours exist
TwoSided == {st \in Elems(profile.steps) : st.hasUpper /\ st.hasLower}

\* C11: at a step of the value-area expansion where an upper and a lower
\* neighbour both exist with equal volumes the upper bound is extended, and
\* the lower bound is extended only when the lower neighbour's volume is
\* strictly greater than the upper neighbour's.
C11_UpperWinsTies ==
    \A st \in TwoSided :
        /\ st.nextUpper = st.nextLower => st.moved = "upper"
        /\ st.moved = "lower" => st.nextLower > st.nextUpper

\* What the loop does: a tie extends the lower bound, and the upper bound is
\* extended only when the upper neighbour's volume is strictly greater.
C11_LowerWinsTies ==
    \A st \in TwoSided :
        /\ st.nextUpper = st.nextLower => st.moved = "lower"
        /\ st.moved = "upper" => st.nextUpper > st.nextLower

C11_Witness ==
    \E st \in TwoSided : st.nextUpper = st.nextLower /\ st.nextUpper > 0

----------------------------------------------------------------------------
(* enrichCandlesWithContext *)

SameVwap(a, b) == a[1] * b[2] = b[1] * a[2]
AfterFirst == 2..Len(enriched)

\* C12: a candle whose UTC calendar date (year, month and day) differs from
\* its predecessor's has cvd equal to its own delta and a vwap computed from
\* itself alone; a candle on its predecessor's UTC date has the predecessor's
\* cvd plus its own delta.
C12_ResetOnNewDate ==
    \A i \in AfterFirst :
        IF UTCDateOf(enriched[i].timestamp) # UTCDateOf(enriched[i - 1].timestamp)
        THEN /\ enriched[i].cvd = enriched[i].delta
             /\ SameVwap(enriched[i].vwap, <<enriched[i].close, 1>>)
        ELSE enriched[i].cvd = enriched[i - 1].cvd + enriched[i].delta

\* What the code does: the accumulators restart exactly when the day of the
\* month differs from the predecessor's.
C12_ResetOnDayOfMonth ==
    \A i \in AfterFirst :
        IF UTCDateOf(enriched[i].timestamp).day # UTCDateOf(enriched[i - 1].timestamp).day
        THEN /\ enriched[i].cvd = enriched[i].delta
             /\ SameVwap(enriched[i].vwap, <<enriched[i].close, 1>>)
        ELSE enriched[i].cvd = enriched[i - 1].cvd + enriched[i].delta

C12_Witness ==
    \E i \in AfterFirst :
        /\ UTCDateOf(enriched[i].timestamp).day # UTCDateOf(enriched[i - 1].timestamp).day
        /\ enriched[i - 1].cvd # 0
        /\ enriched[i].delta # 0

----------------------------------------------------------------------------
(* analyzeDOM *)

\* the volume of the trades of the last call that hit the followed side at a
\* price
ExecutedAt(price) ==
    LET hits == {i \in 1..Len(domIn.trades) :
                    /\ domIn.trades[i].price = price
                    /\ HitsSide(domIn.trades[i], domSide)}
        RECURSIVE Sum(_)
        Sum(S) == IF S = {} THEN 0
                  ELSE LET i == CHOOSE x \in S : TRUE
                       IN  domIn.trades[i].qty + Sum(S \ {i})
    IN  Sum(hits)

\* the number of consecutive ticks right before the last one whose snapshot
\* held the price
Streak(price) ==
    LET n == Len(domSeen)
        gaps == {k \in 1..(n - 1) : price \notin domSeen[k]}
        lastGap == IF gaps = {} THEN 0 ELSE CHOOSE k \in gaps : \A g \in gaps : g <= k
    IN  (n - 1) - lastGap

\* C13: a level whose price is absent from the previous map has deltaQty = qty
\* and age 0; any other has deltaQty = (qty - prev.qty) + the executed volume
\* at its price and age = prev.age + 1.  Tick after tick, a level's age is the
\* number of consecutive preceding ticks whose snapshot held its price, a
\* price missing from one snapshot restarting at 0.
C13_DeltaAndAge ==
    \A i \in 1..Len(domOut) :
        LET l == domOut[i]
        IN  /\ l.price = domIn.levels[i].price /\ l.qty = domIn.levels[i].qty
            /\ IF l.price \notin DOMAIN domIn.prev
               THEN l.deltaQty = l.qty /\ l.age = 0
               ELSE /\ l.deltaQty = (l.qty - domIn.prev[l.price].qty) + ExecutedAt(l.price)
                    /\ l.age = domIn.prev[l.price].age + 1
            /\ l.age = Streak(l.price)

\* a level that was there for two ticks and took a hit, next to one that came back
C13_Witness ==
    /\ Len(domOut) = 2
    /\ domOut[1].age = 2 /\ domOut[1].tradeVol > 0
    /\ domOut[2].age = 0 /\ domOut[2].price \in domSeen[1]

----------------------------------------------------------------------------
(* SmartGroupingEngine *)

Ticked == zoneTick.now # 0
Returned(l) == Elems(zoneTick.byLevel[l])
AnyReturned == UNION {Returned(l) : l \in NoiseLevels}

\* the raw entries of the call that are not older than the time window
Fresh == {r \in Elems(zoneTick.rawMap) :
            ~(r.lastUpdate < zoneTick.now - zoneTick.timeWindow)}
Stale == Elems(zoneTick.rawMap) \ Fresh

KeyOf(price) ==
    IF zoneTick.groupSize = 0 THEN price ELSE price - (price % zoneTick.groupSize)
Members(key) == {r \in Fresh : KeyOf(r.price) = key}

RECURSIVE Total(_, _)
Total(S, field) ==
    IF S = {} THEN 0
    ELSE LET x == CHOOSE y \in S : TRUE IN x[field] + Total(S \ {x}, field)
Greatest(S) == CHOOSE x \in S : \A y \in S : y <= x

BucketVolume(key) ==
    Total(Members(key), "added") + Total(Members(key), "removed")
        + Total(Members(key), "executed")

\* the element at index floor(0.8 n) of the ascending bucket volumes, 1000
\* when there is none or it is 0
FreshThreshold ==
    LET keys == {KeyOf(r.price) : r \in Fresh}
        n == Cardinality(keys)
        \* the volume at 0-based rank k: the least v with more than k buckets <= v
        AtRank(k) == CHOOSE v \in {BucketVolume(key) : key \in keys} :
                        /\ Cardinality({key \in keys : BucketVolume(key) <= v}) > k
                        /\ Cardinality({key \in keys : BucketVolume(key) < v}) <= k
    IN  IF n = 0 THEN 1000
        ELSE IF AtRank((8 * n) \div 10) = 0 THEN 1000
        ELSE AtRank((8 * n) \div 10)

\* C14: a raw entry with lastUpdate < now - timeWindow contributes to no zone
\* and not to the dynamic volume threshold; a zone's added, removed, executed
\* and net are the sums, its density the count, its lastUpdate the maximum
\* and its avgLifetime the maximum of now - firstSeen over exactly the
\* non-stale entries whose bucket key is the zone's priceStart.
C14_ZonesOfFreshEntries ==
    Ticked =>
        /\ {z.priceStart : z \in Elems(zoneTick.scored)} = {KeyOf(r.price) : r \in Fresh}
        /\ zoneTick.activeVolThreshold = FreshThreshold
        /\ \A z \in AnyReturned \cup Elems(zoneTick.scored) :
              LET members == Members(z.priceStart)
              IN  /\ members # {}
                  /\ z.added = Total(members, "added")
                  /\ z.removed = Total(members, "removed")
                  /\ z.executed = Total(members, "executed")
                  /\ z.net = Total(members, "net")
                  /\ z.density = Cardinality(members)
                  /\ z.lastUpdate = Greatest({r.lastUpdate : r \in members})
                  /\ z.avgLifetime = Greatest({zoneTick.now - r.firstSeen : r \in members})

\* a returned zone whose bucket also holds a stale entry
C14_Witness ==
    /\ Ticked
    /\ \E z \in AnyReturned : \E r \in Stale : KeyOf(r.price) = z.priceStart

\* a returned zone of two entries
C14_WitnessTwo ==
    Ticked /\ \E z \in AnyReturned : z.density = 2 /\ z.executed > 0

\* a call with the exact-price grouping that returns a zone
C14_WitnessExact ==
    Ticked /\ zoneTick.groupSize = 0 /\ AnyReturned # {}

\* C15: for the same rawMap, groupSize, timeWindow, lastPrice, volatility and
\* clock, the zones returned with HIGH are among those returned with MEDIUM,
\* which are among those returned with LOW, and the count never grows from
\* LOW to MEDIUM to HIGH.
C15_StricterReturnsFewer ==
    /\ Returned("HIGH") \subseteq Returned("MEDIUM")
    /\ Returned("MEDIUM") \subseteq Returned("LOW")
    /\ Len(zoneTick.byLevel["HIGH"]) <= Len(zoneTick.byLevel["MEDIUM"])
    /\ Len(zoneTick.byLevel["MEDIUM"]) <= Len(zoneTick.byLevel["LOW"])

C15_Witness ==
    /\ Len(zoneTick.byLevel["HIGH"]) < Len(zoneTick.byLevel["MEDIUM"])
    /\ Len(zoneTick.byLevel["MEDIUM"]) < Len(zoneTick.byLevel["LOW"])

C15_WitnessHigh == Len(zoneTick.byLevel["HIGH"]) > 0

\* the standard deviation of the prices is above k: sum (n b - S)^2 > k^2 n^3
DeviationAbove(prices, k) ==
    LET n == Len(prices)
        S == SumOf(prices)
    IN  /\ n >= 5
        /\ SumOfSquares([i \in 1..n |-> n * prices[i] - S]) > k * k * n * n * n

\* C16: after any sequence of updateVolatility calls getAdaptiveGroupSize(base)
\* returns at least base: max(base, 100) when the volatility is above 50,
\* max(base, 50) when it is above 20 and at most 50, max(base, 10) when it is
\* above 5 and at most 20, and base otherwise.
C16_AdaptiveGroupSize ==
    adaptive.base # 0 =>
        /\ adaptive.size >= adaptive.base
        /\ adaptive.size =
              IF DeviationAbove(adaptive.prices, 50) THEN Max(adaptive.base, 100)
              ELSE IF DeviationAbove(adaptive.prices, 20) THEN Max(adaptive.base, 50)
              ELSE IF DeviationAbove(adaptive.prices, 5) THEN Max(adaptive.base, 10)
              ELSE adaptive.base

\* a base above the widened bucket, asked for once the window has shifted
C16_Witness ==
    /\ adaptive.base = 500
    /\ DeviationAbove(adaptive.prices, 50)
    /\ Len(adaptive.prices) = 20 /\ adaptive.prices[20] # 100

C16_WitnessMiddle ==
    /\ adaptive.size = 50 /\ adaptive.base = 5
    /\ ~DeviationAbove(adaptive.prices, 50)

C16_WitnessLow ==
    /\ adaptive.size = 10 /\ adaptive.base = 5

C16_WitnessQuiet ==
    /\ adaptive.size = 5
    /\ ~VolIsZero(adaptive.vol)

----------------------------------------------------------------------------
(* ProfileChart: the stability rule *)

Rendered == chartTick.renders > 0
ModeDiffers == chartTick.instant.mode # chartTick.stable.mode
Replaced == stableContext = chartTick.instant /\ lastStateChange = chartNow
LeftAlone == stableContext = chartTick.stable /\ lastStateChange = chartTick.lastChange
Refreshed == stableContext = chartTick.instant /\ lastStateChange = chartTick.lastChange
Elapsed == chartNow - chartTick.lastChange

\* C17: when the instant mode differs from the stable mode, the stable
\* context is replaced by the instant one and the change time recorded if and
\* only if at least 2000 ms have elapsed since the last accepted change or
\* the instant confidence exceeds 80, and is otherwise left entirely
\* unchanged; when the modes are equal the stable context is refreshed to the
\* instant one without moving the change time.
C17_LockOfTwoSeconds ==
    Rendered =>
        IF ModeDiffers
        THEN IF Elapsed >= 2000 \/ chartTick.instant.confidence > 80
             THEN Replaced ELSE LeftAlone
        ELSE Refreshed

\* What the rule does: the change is accepted once more than 2000 ms have
\* elapsed.
C17_LockOverTwoSeconds ==
    Rendered =>
        IF ModeDiffers
        THEN IF Elapsed > 2000 \/ chartTick.instant.confidence > 80
             THEN Replaced ELSE LeftAlone
        ELSE Refreshed

\* a change of mode offered exactly 2000 ms after the last accepted one
C17_Witness ==
    Rendered /\ ModeDiffers /\ Elapsed = 2000 /\ chartTick.instant.confidence <= 80

----------------------------------------------------------------------------
(* OrderFlowDashboard: the engine after a reset *)

WasReset == lastReset.calls >= 0
TicksSinceReset == calls - lastReset.calls
WindowApplied ==
    windowMinutes = (IF persistenceWindow.session THEN SessionWindow
                     ELSE persistenceWindow.minutes)
BornAfterReset(evs) == \A e \in Elems(evs) : e.firstDetected > lastReset.time
SetAfterReset(cd) == \A b \in DOMAIN cd : cd[b] >= lastReset.time + CooldownMs

\* C18: after a reset of the engine (symbol switch or Clear Events) the
\* ticks run on the new instance: the first tick after the reset starts from
\* an empty map and no cooldown and returns only events created in it, every
\* later tick's input state, events, cooldowns and result hold only what was
\* created after the reset, and the selected persistence window is the
\* window of the engine.
C18_FreshEngineAfterReset ==
    /\ WindowApplied
    /\ WasReset /\ TicksSinceReset = 0 => events = <<>> /\ failCooldowns = <<>>
    /\ WasReset /\ TicksSinceReset = 1 =>
          /\ tick.before = <<>> /\ tick.cooldowns = <<>>
          /\ \A e \in Elems(returned) : e.firstDetected = now
    /\ WasReset /\ TicksSinceReset >= 1 =>
          /\ BornAfterReset(events) /\ BornAfterReset(returned)
          /\ BornAfterReset(tick.before)
          /\ SetAfterReset(failCooldowns) /\ SetAfterReset(tick.cooldowns)

\* a tick after the reset of an engine that held an event and a cooldown,
\* with the very level detected again
C18_Witness ==
    /\ WasReset /\ TicksSinceReset = 1
    /\ lastReset.events # <<>> /\ lastReset.cooldowns # <<>>
    /\ returned # <<>>
    /\ \E e \in Elems(returned) : \E o \in Elems(lastReset.events) : o.id = e.id

C18_WitnessWindow ==
    WasReset /\ TicksSinceReset = 1 /\ persistenceWindow = Timed(60)

----------------------------------------------------------------------------
(* OrderBookDelta: a change of symbol *)

C19_ZonesOfTheSymbol ==
    Ticked => \A z \in AnyReturned : \A r \in Members(z.priceStart) :
                r.origin = zoneTick.symbol

C19_VolatilityOfTheSymbol ==
    Ticked /\ Len(zoneTick.origins) >= 5 =>
        \A i \in 1..Len(zoneTick.origins) : zoneTick.origins[i] = zoneTick.symbol

----------------------------------------------------------------------------
(* EventEngine: the records process() hands out *)

\* the result of the call before the last one, as its consumer received it
HeldRecords == Elems(Renderable(tick.before))
\* the fields of PersistentEvent
EventFields(e) == DOMAIN e \ {"revisits"}

\* C20: the records a process() call returns are immutable snapshots: after
\* the next call the consumer reads in each of them, field by field, the
\* values it had when it was returned.
C20_ImmutableSnapshots ==
    calls >= 2 =>
        \A h \in HeldRecords : \A f \in EventFields(h) : ObjectAfter(h)[f] = h[f]

----------------------------------------------------------------------------
(* The analytics on insufficient input *)

GatheringContext == Context("BALANCED", 0, "neutral")

\* C21: insufficient input yields a neutral result and never an error:
\* calculateProfile([]) returns empty levels and 0 for poc, vah, val,
\* totalVolume, sessionHigh and sessionLow; calculateAuctionContext with
\* fewer than 5 candles returns BALANCED, confidence 0, bias neutral;
\* determineCVDState with fewer than 10 candles returns NEUTRAL;
\* calculateSessionLevels([]) returns null initial-balance fields and 0 for
\* the session high and low.
C21_NeutralOnInsufficientInput ==
    /\ Len(feed) = 0 =>
          /\ analysis.profile.error = "none"
          /\ analysis.profile.levels = <<>>
          /\ \A f \in {"poc", "vah", "val", "totalVolume", "sessionHigh",
                        "sessionLow"} : analysis.profile[f] = 0
          /\ analysis.sessionLevels.ibHigh = Null
          /\ analysis.sessionLevels.ibLow = Null
          /\ analysis.sessionLevels.sessionHigh = 0
          /\ analysis.sessionLevels.sessionLow = 0
    /\ Len(feed) < 5 => analysis.context = GatheringContext
    /\ Len(feed) < 10 => analysis.cvd = "NEUTRAL"

\* four candles, and nine candles whose cumulative delta has moved
C21_Witness ==
    /\ Len(feed) = 9
    /\ Abs(feed[9].cvd - feed[1].cvd) >= 1000
    /\ analysis.context # GatheringContext

C21_WitnessFour == Len(feed) = 4 /\ analysis.context = GatheringContext

C21_WitnessEmpty == Len(feed) = 0 /\ analysis.profile.levels = <<>>

C21_WitnessEnough == Len(feed) = 10 /\ analysis.cvd # "NEUTRAL"

----------------------------------------------------------------------------
(* calculateProfile: a tick size of 0 or below *)

BadTickCall == Len(candles) > 0 /\ tickSize <= 0

\* C22: calculateProfile called with a non-empty candle sequence and
\* tickSize <= 0 fails fast with an InvalidTickSize error; it neither loops
\* forever nor returns metrics.
C22_FailsFastOnBadTick ==
    BadTickCall => profile.error = "InvalidTickSize"

\* What the function does: it never returns, or it returns metrics.
C22_LoopsForever == BadTickCall /\ profile.error = "never returns"
C22_ReturnsMetrics == BadTickCall /\ profile.error = "none" /\ profile.levels # <<>>
C22_ReturnsNoLevels == BadTickCall /\ profile.error = "none" /\ profile.levels = <<>>

----------------------------------------------------------------------------
(* EventEngine: failed pushes *)

\* the events of the map that the last call detected again, as they were
\* before the call and after its detection phase
Redetected ==
    {p \in Elems(tick.before) \X Elems(tick.detected) :
        /\ p[1].id = p[2].id
        /\ p[1].state \notin {"FAIL", "BROKEN"}
        /\ p[2].lastConfirmed = now /\ p[2].confirmations = p[1].confirmations + 1}

AfterAGap(b) == now - b.firstDetected > 60000 /\ now - b.lastConfirmed > 10000

\* C23: when an existing non-terminal event first detected more than
\* 60000 ms ago is detected again more than 10000 ms after its previous
\* confirmation, the call increments its failedPushes by 1.
C23_FailedPushCounted ==
    \A p \in Redetected :
        AfterAGap(p[1]) => p[2].failedPushes = p[1].failedPushes + 1

\* What the code does: the gap is measured on the lastConfirmed it has just
\* written, and no event ever has a failed push.
C23_NeverCounted ==
    /\ \A e \in Tracked : e.failedPushes = 0
    /\ \A d \in Elems(tick.detected) : d.failedPushes = 0

C23_Witness == \E p \in Redetected : AfterAGap(p[1])

----------------------------------------------------------------------------
(* EventEngine: the order of the states *)

StateRank(state) ==
    IF state \in {"STACK", "ABSORPTION"} THEN 1
    ELSE IF state = "HOLDING" THEN 2
    ELSE IF state = "WEAKENING" THEN 3
    ELSE IF state \in {"FAIL", "BROKEN"} THEN 4
    ELSE 0

\* the events the last call kept, as they were before it and as they are now
Kept == {p \in Elems(tick.before) \X Tracked : p[1].id = p[2].id}

\* the last call's detection phase turned the event into an iceberg
PromotedNow(b) ==
    b.type # "ICE" /\ \E d \in Elems(tick.detected) : d.id = b.id /\ d.type = "ICE"

\* C24: between the states observed after consecutive process() calls an
\* event's state only moves forward in the order {STACK, ABSORPTION},
\* HOLDING, WEAKENING, {FAIL, BROKEN}; it moves backwards only through the
\* ICE promotion, and no event is ever in state NEUTRAL.
C24_StatesMoveForward ==
    /\ \A e \in Tracked : StateRank(e.state) > 0
    /\ \A p \in Kept :
          StateRank(p[2].state) < StateRank(p[1].state) => PromotedNow(p[1])

\* a WEAKENING event seen again with its volume back, and a WEAKENING event
\* promoted and found HOLDING after the call
C24_Witness ==
    \E p \in Kept :
        /\ p[1].state = "WEAKENING" /\ p[2].state = "WEAKENING"
        /\ 10 * p[2].volume >= 3 * p[2].peakVolume
        /\ p[2].lastConfirmed = now

C24_WitnessPromoted ==
    \E p \in Kept :
        p[1].state = "WEAKENING" /\ p[2].state = "HOLDING" /\ PromotedNow(p[1])

C24_WitnessFail == \E p \in Kept : p[1].state = "HOLDING" /\ p[2].state = "FAIL"

----------------------------------------------------------------------------
(* EventEngine: the ICE promotion *)

\* the levels of the last call with the id of the event each one names
Offers ==
    {<<EventId("bid", tick.bids[i].price), tick.bids[i]>> : i \in 1..Len(tick.bids)}
    \cup {<<EventId("ask", tick.asks[i].price), tick.asks[i]>> : i \in 1..Len(tick.asks)}

\* the events of the map the last call found again as icebergs, with their
\* record after the detection phase
Promotions ==
    {p \in Elems(tick.before) \X Elems(tick.detected) :
        /\ p[1].id = p[2].id
        /\ p[1].state \in {"STACK", "ABSORPTION", "HOLDING", "WEAKENING"}
        /\ p[1].type # "ICE"
        /\ \E o \in Offers : o[1] = p[1].id /\ o[2].isIceberg}

\* the state the state-machine phase leaves an unbroken event in when it
\* starts from d
PassedOn(d) ==
    ToWeakening(ToHolding([d EXCEPT !.isActive = now - d.lastConfirmed < 500],
                          now - d.firstDetected)).state

\* C25: an existing event in STACK, ABSORPTION, HOLDING or WEAKENING whose
\* type is not ICE and that is detected again as an iceberg leaves the
\* detection phase with type ICE and state STACK, and the state-machine phase
\* of the same call runs on that state; an event of type ICE keeps its type
\* until it fails, and a failed event is not touched by the detection phase,
\* so that no event is promoted twice.
C25_PromotionResetsOnce ==
    /\ \A p \in Promotions :
          /\ p[2].type = "ICE" /\ p[2].state = "STACK"
          /\ Has(events, p[1].id) =>
                \/ Event(p[1].id).state \in {"FAIL", "BROKEN"}
                \/ Event(p[1].id).state = PassedOn(p[2])
    /\ \A p \in Kept :
          /\ p[1].type = "ICE" => p[2].type \in {"ICE", "FAIL"}
          /\ p[2].type = "FAIL" => p[2].state = "FAIL"
    /\ \A b \in Elems(tick.before) :
          b.state \in {"FAIL", "BROKEN"} => b \in Elems(tick.detected)

\* a HOLDING stack promoted, and a promoted event detected as an iceberg again
C25_Witness ==
    \E p \in Promotions : p[1].state = "HOLDING" /\ Has(events, p[1].id)
                           /\ Event(p[1].id).state = "HOLDING"

C25_WitnessAgain ==
    \E p \in Kept : /\ p[1].type = "ICE" /\ p[2].lastConfirmed = now
                     /\ \E o \in Offers : o[1] = p[1].id /\ o[2].isIceberg

C25_WitnessWeak ==
    \E p \in Promotions : p[1].state = "WEAKENING" /\ p[2].state = "STACK"

----------------------------------------------------------------------------
(* EventEngine.processLevels: detection and creation *)

\* the type and strength the stated priority gives a level
StatedType(lvl) ==
    IF lvl.isIceberg THEN <<"ICE", 80>>
    ELSE IF lvl.absorption > 15 THEN <<"ABSORPTION", 80>>
    ELSE IF lvl.isSpoof THEN <<"PULL", 90>>
    ELSE IF lvl.qty * lvl.price > 150000 /\ lvl.age > 5 THEN <<"STACK", 60>>
    ELSE <<"NONE", 0>>

OneOffer == Len(tick.bids) + Len(tick.asks) = 1
TheOffer == CHOOSE o \in Offers : TRUE
Known(id) == \E b \in Elems(tick.before) : b.id = id
Before(id) == CHOOSE b \in Elems(tick.before) : b.id = id
Detected(id) == CHOOSE d \in Elems(tick.detected) : d.id = id

\* C26: a level gets at most one detected type by the priority iceberg
\* (ICE, 80), absorption > 1.5 (ABSORPTION, 80), spoof (PULL, 90),
\* qty * price > 150000 and age > 5 (STACK, 60); a level matching none
\* creates or reinforces nothing; a new event has the level's type and
\* strength, confirmations 1, failedPushes 0, volume = peakVolume = qty and
\* state ABSORPTION for ICE and ABSORPTION, otherwise STACK; an existing
\* event that has not failed is reinforced.
C26_DetectionByPriority ==
    OneOffer =>
        LET id == TheOffer[1]
            lvl == TheOffer[2]
            stated == StatedType(lvl)
        IN  /\ stated[1] = "NONE" => tick.detected = tick.before
            /\ stated[1] # "NONE" /\ ~Known(id) /\ ~(tick.lastPrice < lvl.price) =>
                  /\ Len(tick.detected) = Len(tick.before) + 1
                  /\ Detected(id).type = stated[1]
                  /\ Detected(id).strength = stated[2] * 100
                  /\ Detected(id).confirmations = 1
                  /\ Detected(id).failedPushes = 0
                  /\ Detected(id).volume = lvl.qty
                  /\ Detected(id).peakVolume = lvl.qty
                  /\ Detected(id).state =
                        (IF stated[1] \in {"ICE", "ABSORPTION"} THEN "ABSORPTION"
                         ELSE "STACK")
            /\ stated[1] # "NONE" /\ Known(id)
                  /\ Before(id).state \notin {"FAIL", "BROKEN"} =>
                  /\ Detected(id).confirmations = Before(id).confirmations + 1
                  /\ Detected(id).type =
                        (IF stated[1] = "ICE" THEN "ICE" ELSE Before(id).type)

\* a spoofed level with absorption above 1.5 creates an ABSORPTION event
C26_Witness ==
    /\ OneOffer /\ ~Known(TheOffer[1]) /\ Has(tick.detected, TheOffer[1])
    /\ TheOffer[2].isSpoof /\ TheOffer[2].absorption > 15 /\ ~TheOffer[2].isIceberg

C26_WitnessNone ==
    OneOffer /\ StatedType(TheOffer[2])[1] = "NONE" /\ Known(TheOffer[1])
        /\ Before(TheOffer[1]).state # "BROKEN"

C26_WitnessPull ==
    /\ OneOffer /\ ~Known(TheOffer[1]) /\ Has(tick.detected, TheOffer[1])
    /\ Detected(TheOffer[1]).type = "PULL" /\ TheOffer[2].age > 5 /\ TheOffer[2].qty = 3

C26_WitnessStack ==
    OneOffer /\ Has(tick.detected, TheOffer[1]) /\ Detected(TheOffer[1]).type = "STACK"

----------------------------------------------------------------------------
(* EventEngine: the fail confidence *)

\* the confidence as stated, of an event of the given state at the breach
\* check; the drop ratio 1 - volume / peakVolume is compared exactly
StatedConfidence(d, state, age) ==
    LET score == 50
          + (IF state = "HOLDING" THEN 20 ELSE 0)
          + (IF d.type \in {"ABSORPTION", "ICE"} THEN 15 ELSE 0)
          + (IF age > 300000 THEN 15 ELSE IF age < 120000 THEN 0 - 10 ELSE 0)
          + (IF 2 * (d.peakVolume - d.volume) > d.peakVolume THEN 25
             ELSE IF 10 * (d.peakVolume - d.volume) < d.peakVolume THEN 0 - 20
             ELSE 0)
          + (IF d.failedPushes > 2 THEN 20
             ELSE IF d.failedPushes = 0 THEN 0 - 15 ELSE 0)
    IN  IF score > 100 THEN 100 ELSE IF score < 0 THEN 0 ELSE score

\* the breaches of the last call for which a confidence was computed
ScoredBreaches == {s \in tick.seen : s.conf >= 0}

\* C27: the fail confidence computed on a breach is the clamp to [0, 100] of
\* 50, +20 for state HOLDING at the breach check, +15 for type ABSORPTION or
\* ICE, +15 for age > 300000 or -10 for age < 120000, +25 for a drop ratio
\* > 0.5 or -20 for one < 0.1, +20 for failedPushes > 2 or -15 for
\* failedPushes = 0; a FAIL carries it as its failConfidence.
C27_FailConfidence ==
    \A s \in ScoredBreaches :
        /\ s.age = now - Detected(s.id).firstDetected
        /\ s.conf = StatedConfidence(Detected(s.id), s.state, s.age)
        /\ Event(s.id).state = "FAIL" => Event(s.id).failConfidence = s.conf

\* a breach of an event that the same call had taken to HOLDING or WEAKENING
C27_Witness ==
    \E s \in ScoredBreaches : s.state = "HOLDING" /\ Before(s.id).state # "HOLDING"

C27_WitnessWeakening ==
    \E s \in ScoredBreaches : s.state = "WEAKENING" /\ Before(s.id).state = "HOLDING"

C27_WitnessYoung == \E s \in ScoredBreaches : s.age < 120000 /\ s.conf = 25

C27_WitnessFull == \E s \in ScoredBreaches : s.conf = 95 /\ Event(s.id).state = "FAIL"

----------------------------------------------------------------------------
(* EventEngine: the strength of an event *)

\* the events of the map before the last call that the call kept
Survivors == {b \in Elems(tick.before) : Has(events, b.id)}

\* the last call reinforced the event: a detected level confirmed it once more
Reinforced(b) == Event(b.id).confirmations > b.confirmations

\* strength * (1 - age / window) floored at 10, in hundredths; the life that
\* is left and the window are taken in whole seconds
StatedDecay(b) ==
    LET window == tick.windowMinutes * 60
        life == (tick.windowMinutes * 60000 - (now - b.firstDetected)) \div 1000
        left == (b.strength * life) \div window
    IN  IF left < 1000 THEN 1000 ELSE left

\* C28: after every call of process() every tracked event has a strength
\* from 10 to 100; a call that does not reinforce a non-FAIL event does not
\* increase its strength, which is multiplied by 1 - age / window and floored
\* at 10; the strength of an event in state FAIL never changes.
C28_StrengthBounded ==
    /\ \A e \in Elems(events) : e.strength >= 1000 /\ e.strength <= 10000
    /\ \A b \in Survivors :
          /\ b.state = "FAIL" => Event(b.id).strength = b.strength
          /\ b.state # "FAIL" /\ ~Reinforced(b) =>
                /\ Event(b.id).strength <= b.strength
                /\ Event(b.id).state # "FAIL" =>
                        Event(b.id).strength = StatedDecay(b)

\* a strength above the floor decays in a call that does not reinforce it
C28_Witness ==
    \E b \in Survivors :
        /\ b.state # "FAIL" /\ ~Reinforced(b)
        /\ Event(b.id).strength < b.strength /\ Event(b.id).strength > 1000

C28_WitnessFloor ==
    \E b \in Survivors :
        /\ b.state # "FAIL" /\ ~Reinforced(b)
        /\ b.strength > 1000 /\ Event(b.id).strength = 1000

C28_WitnessFail ==
    \E b \in Survivors : b.state = "FAIL" /\ b.strength > 1000

C28_WitnessReinforced ==
    \E b \in Survivors : Reinforced(b) /\ Event(b.id).strength > b.strength

C28_WitnessBroken ==
    \E b \in Survivors :
        b.state = "BROKEN" /\ Event(b.id).strength < b.strength

----------------------------------------------------------------------------
(* EventEngine: the retest flag *)

\* the last call set the flag of the event
RetestedNow(b) == ~b.isRetest /\ Event(b.id).isRetest

\* |lastPrice - price| / lastPrice < 0.0005
IsNear(lastPrice, price) ==
    LET away == IF lastPrice < price THEN price - lastPrice
                ELSE lastPrice - price
    IN  lastPrice > 0 /\ 10000 * away < 5 * lastPrice

\* C29: isRetest becomes true only in a call of process() where the event
\* is not failed, is older than 60000 ms, was not reconfirmed within the last
\* 500 ms and lies within 0.05 % of lastPrice; once true it stays true in
\* every later call for as long as the event is in the map.
C29_RetestOnlyWhenDue ==
    /\ \A e \in Elems(events) : ~Known(e.id) => ~e.isRetest
    /\ \A b \in Survivors :
          /\ b.isRetest => Event(b.id).isRetest
          /\ RetestedNow(b) =>
                /\ ~Event(b.id).isFailed
                /\ now - Event(b.id).firstDetected > 60000
                /\ now - Event(b.id).lastConfirmed >= 500
                /\ IsNear(tick.lastPrice, Event(b.id).price)

\* the flag is set in a call
C29_Witness == \E b \in Survivors : RetestedNow(b)

\* a flagged event is kept through a call that breaks it
C29_WitnessKept ==
    \E b \in Survivors :
        b.isRetest /\ ~b.isFailed /\ Event(b.id).isFailed

\* an old and near event is not flagged while it is reconfirmed
C29_WitnessConfirmed ==
    \E b \in Survivors :
        /\ ~Event(b.id).isRetest /\ ~Event(b.id).isFailed
        /\ now - Event(b.id).firstDetected > 60000
        /\ now - Event(b.id).lastConfirmed < 500
        /\ IsNear(tick.lastPrice, Event(b.id).price)

\* a near event that has not been reconfirmed is not flagged while it is young
C29_WitnessYoung ==
    \E b \in Survivors :
        /\ ~Event(b.id).isRetest /\ ~Event(b.id).isFailed
        /\ now - Event(b.id).lastConfirmed >= 500
        /\ IsNear(tick.lastPrice, Event(b.id).price)

----------------------------------------------------------------------------
(* EventEngine: the cleanup of the cooldowns *)

\* the entries the first engine has deleted and the second still holds
Purged == DOMAIN twin.failCooldowns \ DOMAIN failCooldowns

\* C30: the cleanup at the end of process() deletes only entries whose
\* deadline is earlier than now, and whichever way Math.random() falls on
\* each call, the events and the arrays returned by process() are the same.
C30_PurgeUnobservable ==
    /\ DOMAIN failCooldowns \subseteq DOMAIN twin.failCooldowns
    /\ \A b \in DOMAIN twin.failCooldowns :
          IF b \in Purged THEN twin.failCooldowns[b] < now
          ELSE failCooldowns[b] = twin.failCooldowns[b]
    /\ events = twin.events
    /\ returned = twin.returned

\* an event of a bucket whose entry was deleted in an earlier call fails
C30_Witness ==
    \E s \in tick.seen :
        /\ s.bucket \notin DOMAIN tick.cooldowns
        /\ \E f \in failLog : f.bucket = s.bucket /\ f.id # s.id
        /\ Event(s.id).state = "FAIL"

\* one entry is deleted while the entry of the other bucket is running
C30_WitnessPartial ==
    Purged # {} /\ \E b \in DOMAIN failCooldowns : failCooldowns[b] >= now

\* an event is broken under a cooldown after another entry was deleted
C30_WitnessCooling ==
    /\ Purged # {}
    /\ \E s \in tick.seen : s.cooldown >= now /\ s.age > 120000

----------------------------------------------------------------------------
(* calculateAuctionContext: the mode *)

\* what the chart handed to calculateAuctionContext for the last render
ChartPrice == feed[Len(feed)].close
ChartMode == analysis.context.mode
LastFive == SliceLast(feed, 5)
InsideValue == /\ analysis.profile.val <= ChartPrice
               /\ ChartPrice <= analysis.profile.vah

\* C31: with at least 5 recent candles, FAILED_AUCTION_HIGH is returned only
\* when the highest high of the last 5 candles exceeded vah, the last candle
\* closed down and lastPrice is inside the value area, FAILED_AUCTION_LOW only
\* when the lowest low went below val, the last candle closed up and
\* lastPrice is inside the value area; otherwise INITIATIVE_BUY / SELL is
\* returned exactly when lastPrice is above vah / below val, and ROTATIONAL
\* or BALANCED only when lastPrice is inside the value area.
C31_FailedAuctionInsideValue ==
    Len(feed) >= 5 =>
        /\ ChartMode = "FAILED_AUCTION_HIGH" =>
              /\ HighestOf(LastFive) > analysis.profile.vah
              /\ feed[Len(feed)].close < feed[Len(feed)].open
              /\ InsideValue
        /\ ChartMode = "FAILED_AUCTION_LOW" =>
              /\ LowestOf(LastFive) < analysis.profile.val
              /\ feed[Len(feed)].close > feed[Len(feed)].open
              /\ InsideValue
        /\ ChartMode \notin {"FAILED_AUCTION_HIGH", "FAILED_AUCTION_LOW"} =>
              /\ ChartMode = "INITIATIVE_BUY" <=> ChartPrice > analysis.profile.vah
              /\ ChartMode = "INITIATIVE_SELL" <=> ChartPrice < analysis.profile.val
        /\ ChartMode \in {"ROTATIONAL", "BALANCED"} => InsideValue

\* what the code does: the failed auction at the high tests lastPrice < vah
\* only, the one at the low lastPrice > val only
C31_OneEdgeTested ==
    Len(feed) >= 5 =>
        /\ ChartMode = "FAILED_AUCTION_HIGH" =>
              /\ HighestOf(LastFive) > analysis.profile.vah
              /\ feed[Len(feed)].close < feed[Len(feed)].open
              /\ ChartPrice < analysis.profile.vah
        /\ ChartMode = "FAILED_AUCTION_LOW" =>
              /\ LowestOf(LastFive) < analysis.profile.val
              /\ feed[Len(feed)].close > feed[Len(feed)].open
              /\ ChartPrice > analysis.profile.val
        /\ ChartMode \notin {"FAILED_AUCTION_HIGH", "FAILED_AUCTION_LOW"} =>
              /\ ChartMode = "INITIATIVE_BUY" <=> ChartPrice > analysis.profile.vah
              /\ ChartMode = "INITIATIVE_SELL" <=> ChartPrice < analysis.profile.val
        /\ ChartMode \in {"ROTATIONAL", "BALANCED"} => InsideValue

\* a failed auction at the high with lastPrice below the value area
C31_BelowValue ==
    /\ Len(feed) >= 5 /\ ChartMode = "FAILED_AUCTION_HIGH"
    /\ ChartPrice < analysis.profile.val

\* a failed auction at the low with lastPrice above the value area
C31_AboveValue ==
    /\ Len(feed) >= 5 /\ ChartMode = "FAILED_AUCTION_LOW"
    /\ ChartPrice > analysis.profile.vah

----------------------------------------------------------------------------
(* analyzeDOM in the analytics loop: icebergVol *)

\* the quantity of all the trades received that hit the followed side at a price
RECURSIVE HitTotal(_, _)
HitTotal(trades, price) ==
    IF trades = <<>> THEN 0
    ELSE (IF Head(trades).price = price /\ HitsSide(Head(trades), domSide)
            THEN Head(trades).qty ELSE 0)
         + HitTotal(Tail(trades), price)

Persists(l) == l.price \in DOMAIN domIn.prev

\* C32: tick after tick, at a price that persists in the book icebergVol
\* does not decrease and is a running total in which the quantity of each
\* hitting trade is added at most once; it restarts from 0 at a price that
\* was absent from the previous snapshot.
C32_EachTradeOnce ==
    \A i \in 1..Len(domOut) :
        LET l == domOut[i]
        IN  /\ Persists(l) => l.icebergVol >= domIn.prev[l.price].icebergVol
            /\ ~Persists(l) => l.icebergVol \in {0, ExecutedAt(l.price)}
            /\ l.icebergVol <= HitTotal(tradesBuffer, l.price)

\* what the code does: every tick adds the whole volume of the hitting trades
\* of the last 1500 ms
C32_AddedEveryTick ==
    \A i \in 1..Len(domOut) :
        LET l == domOut[i]
            carried == IF Persists(l) THEN domIn.prev[l.price].icebergVol ELSE 0
        IN  l.icebergVol = carried + (IF l.isIceberg THEN ExecutedAt(l.price) ELSE 0)

\* one trade counted on two ticks
C32_CountedTwice ==
    \E i \in 1..Len(domOut) :
        /\ Len(tradesBuffer) = 1
        /\ domOut[i].icebergVol = 2 * tradesBuffer[1].qty

----------------------------------------------------------------------------
(* SmartGroupingEngine: the filter and the order of the zones *)

\* the threshold as stated
StatedThreshold(l) ==
    IF l = "LOW" THEN 80
    ELSE IF l = "MEDIUM" THEN 60
    ELSE IF l = "HIGH" THEN 40
    ELSE IF zoneTick.vol[1] > 400 * zoneTick.vol[2] THEN 30 ELSE 60

\* C33: every zone aggregateZones returns has isSignificant = true and a
\* noiseScore below the threshold of the noiseLevel (LOW 80, MEDIUM 60,
\* HIGH 40, AUTO 30 when the volatility is above 20, else 60); every bucket
\* with a noiseScore at or above it is left out; the list is in strictly
\* descending order of priceStart.
C33_SignificantAndSorted ==
    \A l \in NoiseLevels :
        LET zones == zoneTick.byLevel[l]
        IN  /\ \A i \in 1..Len(zones) :
                  zones[i].isSignificant /\ zones[i].noiseScore < StatedThreshold(l)
            /\ \A b \in Elems(zoneTick.scored) :
                  b.noiseScore >= StatedThreshold(l) =>
                      \A i \in 1..Len(zones) : zones[i].priceStart # b.priceStart
            /\ \A i \in 1..Len(zones) : \A j \in (i + 1)..Len(zones) :
                  zones[i].priceStart > zones[j].priceStart

\* three zones returned in order while other buckets are left out
C33_Witness ==
    \E l \in NoiseLevels :
        /\ Len(zoneTick.byLevel[l]) >= 3
        /\ Len(zoneTick.byLevel[l]) < Len(zoneTick.scored)

\* AUTO is stricter than HIGH under a high volatility
C33_WitnessAuto ==
    /\ Len(zoneTick.byLevel["AUTO"]) < Len(zoneTick.byLevel["HIGH"])
    /\ zoneTick.byLevel["AUTO"] # <<>>

----------------------------------------------------------------------------
(* SmartGroupingEngine: the noise score *)

\* the score as stated, of a bucket of volume vol, lifetime life and
\* executions executed at the distance away from lastPrice, with threshold T
StatedNoise(vol, life, executed, away, T) ==
    LET inZone == away < zoneTick.groupSize
        score == 50
          + (IF vol > 2 * T THEN 0 - 30 ELSE IF 10 * vol < 2 * T THEN 30 ELSE 0)
          + (IF life < 5000 THEN 40 ELSE 0)
          + (IF life > 60000 THEN 0 - 20 ELSE 0)
          + (IF vol > T /\ inZone THEN 0 - 30
             ELSE IF vol > T /\ executed > 0 THEN 0 - 20
             ELSE IF vol < T /\ ~inZone THEN 10 ELSE 0)
    IN  IF score < 0 THEN 0 ELSE IF score > 100 THEN 100 ELSE score

Away(price) ==
    IF zoneTick.lastPrice < price THEN price - zoneTick.lastPrice
    ELSE zoneTick.lastPrice - price

\* C34: with vol = added + removed + executed and T the element at index
\* floor(0.8 n) of the ascending bucket volumes (1000 without buckets or when
\* it is 0), noiseScore is the clamp to [0, 100] of 50, -30 if vol > 2T else
\* +30 if vol < 0.2T, +40 if lifetime < 5000, -20 if lifetime > 60000, then
\* -30 with impactScore 100 if vol > T and |lastPrice - priceStart| <
\* groupSize, else -20 if vol > T and executed > 0, else +10 if vol < T and
\* the price is not in the zone; impactScore is 0 otherwise.
C34_NoiseScore ==
    Ticked =>
        /\ zoneTick.activeVolThreshold = FreshThreshold
        /\ \A z \in Elems(zoneTick.scored) \cup AnyReturned :
              LET members == Members(z.priceStart)
                  vol == BucketVolume(z.priceStart)
                  life == Greatest({zoneTick.now - r.firstSeen : r \in members})
              IN  /\ z.noiseScore =
                        StatedNoise(vol, life, Total(members, "executed"),
                                    Away(z.priceStart), FreshThreshold)
                  /\ z.impactScore =
                        IF vol > FreshThreshold
                           /\ Away(z.priceStart) < zoneTick.groupSize
                        THEN 100 ELSE 0

\* an absorbing bucket: more than twice the threshold, with the price in it
C34_Witness ==
    \E z \in Elems(zoneTick.scored) :
        /\ z.impactScore = 100 /\ z.noiseScore = 0
        /\ Cardinality(Elems(zoneTick.scored)) = 6

\* the score is clamped at 100
C34_WitnessTrash ==
    \E z \in Elems(zoneTick.scored) :
        z.noiseScore = 100 /\ z.avgLifetime < 5000 /\ zoneTick.activeVolThreshold = 1000

\* a bucket above the threshold that the price has left, with executions
C34_WitnessInitiation ==
    \E z \in Elems(zoneTick.scored) :
        /\ z.added + z.removed + z.executed > zoneTick.activeVolThreshold
        /\ z.executed > 0 /\ z.impactScore = 0 /\ z.noiseScore = 30

----------------------------------------------------------------------------
(* calculateProfile: a function of its arguments *)

Ascending(levels) ==
    \A i \in 1..Len(levels) : \A j \in (i + 1)..Len(levels) :
        levels[i].price < levels[j].price

----------------------------------------------------------------------------
(* The fields of a tracked event agree with one another *)

\* C36: after every process() call every tracked event has isFailed true
\* exactly when its state is FAIL or BROKEN, has state FAIL exactly when its
\* type is FAIL and exactly when its failTime is defined, holds no more
\* volume than its peakVolume and has been confirmed at least once.
C36_EventFieldsAgree ==
    \A e \in Tracked :
        /\ e.isFailed <=> e.state \in {"FAIL", "BROKEN"}
        /\ e.state = "FAIL" <=> e.type = "FAIL"
        /\ e.state = "FAIL" <=> e.failTime # NoTime
        /\ e.volume <= e.peakVolume
        /\ e.confirmations >= 1

\* a FAIL event with its failTime, fallen below its peak
C36_Witness ==
    \E e \in Tracked :
        /\ e.state = "FAIL" /\ e.failTime # NoTime /\ e.volume < e.peakVolume

\* a BROKEN event: failed, without a failTime, its type kept
C36_WitnessBroken ==
    \E e \in Tracked :
        /\ e.state = "BROKEN" /\ e.isFailed /\ e.failTime = NoTime
        /\ e.confirmations > 1

----------------------------------------------------------------------------
(* One event for a side and price, replaced only after it expired *)

DetectedAgain(b) ==
    \E l \in Elems(IF b.side = "bid" THEN tick.bids ELSE tick.asks) :
        l.price = b.price /\ Detect(l).type # "NONE"

FailedBefore == {b \in Elems(tick.before) : b.state \in {"FAIL", "BROKEN"}}

\* C37: the engine tracks at most one event for a side and price; while a
\* BROKEN or FAIL event of a key is tracked a detection at its side and price
\* creates no event and leaves it as it is, and an event with a new
\* firstDetected appears for the key only in a call after the one that
\* removed the old event by expiry: past the window from firstDetected for a
\* BROKEN event, past 120000 ms from failTime for a FAIL.
C37_OneEventPerKey ==
    /\ \A i, j \in 1..Len(events) : events[i].id = events[j].id => i = j
    /\ \A e \in Tracked : e.id = <<e.side, e.price>>
    /\ \A b \in FailedBefore :
          /\ Get(tick.detected, b.id) = b
          /\ Has(events, b.id) =>
                /\ Event(b.id).firstDetected = b.firstDetected
                /\ Event(b.id).state = b.state
          /\ (~Has(events, b.id) /\ b.state = "BROKEN") =>
                now - b.firstDetected > tick.windowMinutes * 60000
          /\ (~Has(events, b.id) /\ b.state = "FAIL") =>
                now - b.failTime > 120000
    /\ \A e \in Tracked :
          ~Known(e.id) => e.firstDetected = now /\ e.confirmations = 1

\* a detection on the level of a failed event that the call keeps
C37_Witness ==
    \E b \in FailedBefore : DetectedAgain(b) /\ Has(events, b.id)

\* a fresh event on the key of a FAIL that expired in an earlier call
C37_WitnessFresh ==
    \E e \in Tracked : \E f \in failLog :
        /\ ~Known(e.id) /\ f.id = e.id
        /\ e.firstDetected > f.failTime + 120000

\* a failed event whose level is detected in the call that removes it
C37_WitnessRemoved ==
    \E b \in FailedBefore : DetectedAgain(b) /\ ~Has(events, b.id)

----------------------------------------------------------------------------
(* Every event leaves the map *)

LatestRemoval(e) == e.firstDetected + WindowMs(windowMinutes) + FailFade

\* C38: with the window fixed and process() called again and again under an
\* advancing clock every event is removed from the map in the end, no later
\* than the first call at which now > firstDetected + W + 120000: an event
\* enters FAIL only at an age of W or less and is kept at most 120000 ms
\* from then.
C38_EventuallyRemoved ==
    /\ [](\A e \in Tracked :
            /\ now <= LatestRemoval(e)
            /\ e.state # "FAIL" => now - e.firstDetected <= WindowMs(windowMinutes)
            /\ e.state = "FAIL" =>
                  /\ e.failTime - e.firstDetected <= WindowMs(windowMinutes)
                  /\ now - e.failTime <= FailFade)
    /\ Has(events, StackId) ~> ~Has(events, StackId)

\* a FAIL raised at the age of the window and still tracked 120000 ms later
C38_Witness ==
    \E e \in Tracked :
        /\ e.state = "FAIL" /\ now = LatestRemoval(e)
        /\ e.failTime - e.firstDetected = WindowMs(windowMinutes)

\* an event is removed by a call on an empty book
C38_WitnessQuiet ==
    /\ calls > MaxFeedCalls /\ tick.before # <<>> /\ events = <<>>

----------------------------------------------------------------------------
(* The confidence of the auction context and the two-second lock *)

Confidences == {0, 50, 70, 75, 80}
Accepted == Rendered /\ lastStateChange # chartTick.lastChange

\* C39: calculateAuctionContext returns a confidence of 0, 50, 70, 75 or 80
\* and never one above 80, so the stability rule never lets a change through
\* on confidence, and two accepted changes of the stable mode are more than
\* 2000 ms apart.
C39_NoBypass ==
    /\ analysis.context.confidence \in Confidences
    /\ Rendered => chartTick.instant = analysis.context
    /\ (Rendered /\ stableContext.mode # chartTick.stable.mode) => Accepted
    /\ Accepted =>
          /\ lastStateChange = chartNow
          /\ lastStateChange - chartTick.lastChange > 2000
    /\ (Rendered /\ ModeDiffers /\ Elapsed <= 2000) => LeftAlone

\* a change of mode accepted after an earlier accepted change
C39_Witness ==
    /\ Accepted /\ chartTick.lastChange > 0
    /\ stableContext.mode # chartTick.stable.mode

\* a change to a context of confidence 80 refused inside the two seconds
C39_WitnessRefused ==
    /\ Rendered /\ ModeDiffers /\ Elapsed <= 2000 /\ LeftAlone
    /\ chartTick.instant.confidence = 80

----------------------------------------------------------------------------
(* The spoof flag excludes the iceberg and the absorption *)

Spoofs == {l \in Elems(domOut) : l.isSpoof}

\* C40: no level analyzeDOM returns has isSpoof and isIceberg both true; a
\* level with isSpoof has tradeVol 0 and absorption 0 and its price was in
\* the previous map, so the engine's detection of it takes neither the
\* iceberg nor the absorption branch.
C40_SpoofExcludesIceberg ==
    /\ \A l \in Elems(domOut) : ~(l.isSpoof /\ l.isIceberg)
    /\ \A l \in Spoofs :
          /\ l.tradeVol = 0
          /\ l.absorption[1] = 0
          /\ l.price \in DOMAIN domIn.prev
          /\ EngineLevel(l).absorption = 0
          /\ Detect(EngineLevel(l)).type \notin {"ICE", "ABSORPTION"}

\* a pulled level, tracked by the engine as a PULL, while the trade buffer
\* holds a trade too old to count
C40_Witness ==
    /\ \E l \in Spoofs : Has(events, <<domSide, l.price>>)
                           /\ Event(<<domSide, l.price>>).type = "PULL"
    /\ tradesBuffer # <<>>

\* an iceberg in the same feed
C40_WitnessIceberg ==
    \E l \in Elems(domOut) : l.isIceberg /\ l.price \in DOMAIN domIn.prev

====
